---- MODULE Spec2Model ----
(***************************************************************************)
(* The local development bridge of the Power Apps code-app templates: the  *)
(* Vite plugin `powerApps` (config loader with a process-wide cache,       *)
(* origin allow-list, config HTTP endpoint, startup notifier and file      *)
(* watcher).  The repository ships two versions of the plugin: the earlier *)
(* one (App.tsx lines 18-213, no watcher, no try/catch around the loader)  *)
(* and the later one (App.tsx lines 215-438).  The variable `plugin` says  *)
(* which one the dev server runs.                                          *)
(*                                                                         *)
(* Strings that the code takes apart or puts together are sequences:       *)
(*   - an Origin header is a sequence of one-character strings, so that    *)
(*     the regular expressions are matched character by character;         *)
(*   - the text of power.config.json is a sequence of JSON lexical tokens, *)
(*     so that JSON.parse and JSON.stringify are computed;                 *)
(*   - a URL / console line is a sequence of string pieces, so that the    *)
(*     template literals are concatenations.                               *)
(***************************************************************************)
EXTENDS Integers, Sequences, FiniteSets, TLC

VARIABLES
    plugin,             \* "early" | "late": which plugin file is installed
    httpServer,         \* server.httpServer is there (null in middleware mode)
    file,               \* power.config.json on disk: [code, text]
    cachedPowerConfig,  \* module-level cache (App.tsx:286)
    listenPending,      \* a "listening" event of the http server is due
    accepting,          \* requests reach the middleware
    crashed,            \* an exception left an event listener: process is gone
    isColorSupported,   \* picocolors: colours enabled for this terminal
    loaded,             \* history: the record the last successful
                        \*   getPowerConfig returned, until an invalidation
    invalidation,       \* history: the last invalidation and the record it
                        \*   dropped, until the step after the next call
    provenance,         \* history: the file as it was at the read that gave
                        \*   the record last loaded, and whether an
                        \*   invalidation has come since that read
    last,               \* history: what the last handler did
    probe,              \* allow-list study: the origin under test
    probeResult,        \* allow-list study: "none" | "allowed" | "denied"
    contact,            \* useLookupResolver: the contact prop
    resolvedLookups,    \* useLookupResolver: useState (the five names)
    loading,            \* useLookupResolver: useState
    runs,               \* useLookupResolver: fetchLookupNames calls in flight
    services,           \* how the Dataverse services answer get()
    accounts,           \* useAccounts: useState (the list)
    accountsLoading,    \* useAccounts: useState (loading)
    loads,              \* useAccounts: loadAccounts calls in flight
    lastLoad,           \* history: the loadAccounts call that ended last
    started,            \* effect runs and loadAccounts calls begun so far
    page,               \* template page: "closed" | "open" in the browser
    count,              \* template page: useState of the counter button
    theme,              \* template page: "light" | "dark"
    clicks,             \* history: clicks on the counter since page load
    selectedContact,    \* ContactForm: prop
    isCreating,         \* ContactForm: prop
    formData,           \* ContactForm: useState (the seven fields)
    hasUnsavedChanges,  \* ContactForm: useState
    submits,            \* ContactForm: onSubmit calls not yet resolved
    clean               \* history: the data last loaded into the form,
                        \*   the data of the last successful submit, the
                        \*   handler that ran last, and whether Cancel was
                        \*   pressed since the last load or edit

vars == <<plugin, httpServer, file, cachedPowerConfig, listenPending,
          accepting, crashed, isColorSupported, loaded, invalidation,
          provenance, last, probe, probeResult, contact, resolvedLookups,
          loading, runs, services, accounts, accountsLoading,
          loads, lastLoad, started, page, count, theme, clicks,
          selectedContact, isCreating, formData, hasUnsavedChanges, submits,
          clean>>

\* the state of the plugin and of its studies
pluginVars ==
    <<plugin, httpServer, file, cachedPowerConfig, listenPending, accepting,
      crashed, isColorSupported, loaded, invalidation, provenance, last,
      probe, probeResult>>

\* the state of useLookupResolver
lookupVars == <<contact, resolvedLookups, loading, runs, services>>

\* the state of useAccounts
accountVars == <<accounts, accountsLoading, loads, lastLoad>>

\* the state of the template page
counterVars == <<page, count, theme, clicks>>

\* the state of ContactForm
formVars ==
    <<selectedContact, isCreating, formData, hasUnsavedChanges, submits,
      clean>>

(***************************************************************************)
(* Bounds of the model.                                                    *)
(***************************************************************************)
MaxLabels == 4     \* host labels of the origins of the allow-list study

(***************************************************************************)
(* const x = v; F(x): v is computed once, then named.                      *)
(***************************************************************************)
Let(v, F(_)) == CHOOSE r \in {F(x) : x \in {v}} : TRUE

(***************************************************************************)
(* JavaScript values.  Every value is a record with a field t.             *)
(***************************************************************************)
JsNull      == [t |-> "null"]
JsUndefined == [t |-> "undefined"]
JsString(s) == [t |-> "string", s |-> s]
\* a Number, as the string Number::toString gives for it
JsNumber(n) == [t |-> "number", n |-> n]
JsBool(b)   == [t |-> "boolean", b |-> b]
JsArray(xs) == [t |-> "array", items |-> xs]
\* a string the code builds from parts: the sequence of its non-empty pieces
JsText(ps)  == [t |-> "text", pieces |-> ps]
\* a string the code matches against a regular expression: its characters
JsChars(cs) == [t |-> "chars", chars |-> cs]
\* an object keeps its own keys in the order of OrdinaryOwnPropertyKeys:
\* array indices ascending, then the other strings in insertion order
JsObject(ms) == [t |-> "object", members |-> ms]

\* typeof v
TypeOf(v) ==
    CASE v.t \in {"null", "array", "object", "address", "urls"} -> "object"
      [] v.t \in {"text", "chars"} -> "string"
      [] OTHER -> v.t

\* ToBoolean(v), as in `if (v)` and `!v`
Truthy(v) ==
    CASE v.t \in {"null", "undefined"} -> FALSE
      [] v.t = "string"  -> v.s # ""
      [] v.t = "number"  -> v.n \notin {"0", "NaN"}
      [] v.t = "boolean" -> v.b
      [] v.t = "text"    -> v.pieces # <<>>
      [] v.t = "chars"   -> v.chars # <<>>
      [] OTHER           -> TRUE

\* key in obj  (own keys; an array has only index keys and "length")
HasKey(obj, key) ==
    /\ obj.t = "object"
    /\ \E i \in 1..Len(obj.members) : obj.members[i].key = key

\* obj[key]
GetKey(obj, key) ==
    IF HasKey(obj, key)
    THEN LET i == CHOOSE j \in 1..Len(obj.members) : obj.members[j].key = key
         IN  obj.members[i].val
    ELSE JsUndefined

\* the value of a decimal digit character, -1 for any other character
DigitValue(c) ==
    CASE c = "0" -> 0 [] c = "1" -> 1 [] c = "2" -> 2 [] c = "3" -> 3
      [] c = "4" -> 4 [] c = "5" -> 5 [] c = "6" -> 6 [] c = "7" -> 7
      [] c = "8" -> 8 [] c = "9" -> 9 [] OTHER -> -1

\* character i of the string s
CharAt(s, i) == SubSeq(s, i, i)

\* a < b for strings of decimal digits without leading zeros
RECURSIVE DigitsLess(_, _)
DigitsLess(a, b) ==
    IF Len(a) # Len(b) THEN Len(a) < Len(b)
    ELSE IF a = "" THEN FALSE
    ELSE IF CharAt(a, 1) # CharAt(b, 1)
    THEN DigitValue(CharAt(a, 1)) < DigitValue(CharAt(b, 1))
    ELSE DigitsLess(Tail(a), Tail(b))

\* key is an array index: the canonical numeral of an integer in 0..2^32-2
IsArrayIndex(key) ==
    /\ Len(key) >= 1
    /\ \A i \in 1..Len(key) : DigitValue(CharAt(key, i)) >= 0
    /\ (Len(key) > 1 => CharAt(key, 1) # "0")
    /\ DigitsLess(key, "4294967295")

\* obj[key] = val while parsing (CreateDataProperty): a repeated key keeps
\* its place and takes the later value; a new array index goes among the
\* array indices, in ascending order, before every other key; any other
\* new key goes last
PutKey(ms, key, val) ==
    IF \E i \in 1..Len(ms) : ms[i].key = key
    THEN LET i == CHOOSE j \in 1..Len(ms) : ms[j].key = key
         IN  [ms EXCEPT ![i] = [key |-> key, val |-> val]]
    ELSE IF IsArrayIndex(key)
    THEN LET before == Cardinality({i \in 1..Len(ms) :
                          /\ IsArrayIndex(ms[i].key)
                          /\ DigitsLess(ms[i].key, key)})
         IN  SubSeq(ms, 1, before)
             \o <<[key |-> key, val |-> val]>>
             \o SubSeq(ms, before + 1, Len(ms))
    ELSE Append(ms, [key |-> key, val |-> val])

(***************************************************************************)
(* Numbers.  JSON.parse turns a numeral into a Number (the nearest double, *)
(* ties to even) and JSON.stringify writes a Number with Number::toString  *)
(* (the shortest decimal that reads back as the same double).  A Number is *)
(* kept as the string Number::toString gives for it.  Natural numbers of   *)
(* any size are sequences of decimal digits, lowest first.                 *)
(***************************************************************************)
DigitChars == <<"0", "1", "2", "3", "4", "5", "6", "7", "8", "9">>

\* the digits of a numeral string, lowest first, and back
NatOfString(s0) ==
    Let(s0, LAMBDA s :
        [i \in 1..Len(s) |-> DigitValue(CharAt(s, Len(s) + 1 - i))])

RECURSIVE StringOfNat(_)
StringOfNat(a0) ==
    Let(a0, LAMBDA a :
        IF a = <<>> THEN ""
        ELSE StringOfNat(Tail(a)) \o DigitChars[Head(a) + 1])

\* without the zeros at the high end; zero is the empty sequence
NatStrip(a0) ==
    Let(a0, LAMBDA a :
        SubSeq(a, 1, Len(a) - (CHOOSE d \in 0..Len(a) :
                                  /\ d = Len(a) \/ a[Len(a) - d] # 0
                                  /\ \A j \in 0..(d - 1) : a[Len(a) - j] = 0)))

NatDigit(a, i) == IF i >= 1 /\ i <= Len(a) THEN a[i] ELSE 0

\* a < b, for stripped a and b
NatLess(a0, b0) ==
    Let(<<a0, b0>>, LAMBDA p :
        IF Len(p[1]) # Len(p[2]) THEN Len(p[1]) < Len(p[2])
        ELSE Let(CHOOSE d \in 0..Len(p[1]) :
                    /\ d = Len(p[1])
                       \/ p[1][Len(p[1]) - d] # p[2][Len(p[1]) - d]
                    /\ \A j \in 0..(d - 1) :
                          p[1][Len(p[1]) - j] = p[2][Len(p[1]) - j],
                 LAMBDA top :
                    /\ top < Len(p[1])
                    /\ p[1][Len(p[1]) - top] < p[2][Len(p[1]) - top]))

\* 2 * a: the carry comes from the neighbouring digit alone
NatDouble(a0) ==
    Let(a0, LAMBDA a :
        NatStrip([i \in 1..(Len(a) + 1) |->
                    (2 * NatDigit(a, i)
                     + (IF NatDigit(a, i - 1) >= 5 THEN 1 ELSE 0)) % 10]))

\* a carry enters place i of the sums of digits when the nearest lower
\* place that is not 9 overflows
NatCarryInto(sum, i) ==
    Let(CHOOSE d \in 1..i :
           /\ d = i \/ sum[i - d] # 9
           /\ \A j \in 1..(d - 1) : sum[i - j] = 9,
        LAMBDA back : back < i /\ sum[i - back] >= 10)

\* a + b
NatAdd(a0, b0) ==
    Let(<<a0, b0>>, LAMBDA p :
    Let([i \in 1..((IF Len(p[1]) > Len(p[2]) THEN Len(p[1]) ELSE Len(p[2]))
                   + 1) |-> NatDigit(p[1], i) + NatDigit(p[2], i)],
        LAMBDA sum :
        NatStrip([i \in 1..Len(sum) |->
                    (sum[i] + (IF NatCarryInto(sum, i) THEN 1 ELSE 0)) % 10])))

\* a borrow leaves place i of a - b when the nearest lower place that is
\* not level is short
NatBorrowFrom(a, b, i) ==
    Let(CHOOSE d \in 1..i :
           /\ d = i \/ a[i - d] # NatDigit(b, i - d)
           /\ \A j \in 1..(d - 1) : a[i - j] = NatDigit(b, i - j),
        LAMBDA back : back < i /\ a[i - back] < NatDigit(b, i - back))

\* a - b for a >= b
NatSub(a0, b0) ==
    Let(<<a0, b0>>, LAMBDA p :
        NatStrip([i \in 1..Len(p[1]) |->
                    (10 + p[1][i] - NatDigit(p[2], i)
                     - (IF NatBorrowFrom(p[1], p[2], i) THEN 1 ELSE 0)) % 10]))

\* a * 10^k
NatShift(a0, k) ==
    Let(a0, LAMBDA a : IF a = <<>> THEN <<>> ELSE [i \in 1..k |-> 0] \o a)

\* places that hold more than a digit, carried over
RECURSIVE NatCarry(_)
NatCarry(c0) ==
    Let(c0, LAMBDA c :
        IF \A i \in 1..Len(c) : c[i] < 10 THEN NatStrip(c)
        ELSE NatAdd(NatStrip([i \in 1..Len(c) |-> c[i] % 10]),
                    NatShift(NatCarry([i \in 1..Len(c) |-> c[i] \div 10]), 1)))

\* the sum of a[j] * b[i + 1 - j] for j in lo..hi
RECURSIVE NatConvolve(_, _, _, _, _)
NatConvolve(a, b, i, lo, hi) ==
    IF lo > hi THEN 0
    ELSE IF lo = hi THEN a[lo] * b[i + 1 - lo]
    ELSE Let((lo + hi) \div 2, LAMBDA mid :
             NatConvolve(a, b, i, lo, mid) + NatConvolve(a, b, i, mid + 1, hi))

\* a * b
NatMul(a0, b0) ==
    Let(<<a0, b0>>, LAMBDA p :
        IF p[1] = <<>> \/ p[2] = <<>> THEN <<>>
        ELSE NatCarry([i \in 1..(Len(p[1]) + Len(p[2]) - 1) |->
                NatConvolve(p[1], p[2], i,
                            IF i > Len(p[2]) THEN i + 1 - Len(p[2]) ELSE 1,
                            IF i < Len(p[1]) THEN i ELSE Len(p[1]))]))

\* base^k, by squaring
RECURSIVE NatPow(_, _)
NatPow(base, k) ==
    IF k = 0 THEN <<1>>
    ELSE Let(NatPow(base, k \div 2), LAMBDA h :
             IF k % 2 = 0 THEN NatMul(h, h)
             ELSE NatMul(NatMul(h, h), base))

\* the value of a short a
RECURSIVE NatValue(_)
NatValue(a0) ==
    Let(a0, LAMBDA a :
        IF a = <<>> THEN 0 ELSE Head(a) + 10 * NatValue(Tail(a)))

\* the number of bits of a > 0: the leading digits and the length give it
\* within two, and a power of 2 decides
NatBits(a0) ==
    Let(a0, LAMBDA a :
    Let(IF Len(a) > 4 THEN 4 ELSE Len(a), LAMBDA lead :
    Let(NatValue(SubSeq(a, Len(a) - lead + 1, Len(a))), LAMBDA top :
    Let(Cardinality({k \in 1..13 : 2^k <= top})
        + ((Len(a) - lead) * 33219) \div 10000, LAMBDA least :
    Let(NatPow(<<2>>, least + 1), LAMBDA p :
        IF NatLess(a, p) THEN least + 1
        ELSE IF NatLess(a, NatDouble(p)) THEN least + 2
        ELSE least + 3)))))

\* ---- a numeral taken apart ----
\* the digits a string starts with
DigitRun(s0) ==
    Let(s0, LAMBDA s :
        SubSeq(s, 1, CHOOSE d \in 0..Len(s) :
                        /\ d = Len(s) \/ DigitValue(CharAt(s, d + 1)) < 0
                        /\ \A j \in 1..d : DigitValue(CharAt(s, j)) >= 0))

StripLeadingZeros(s0) ==
    Let(s0, LAMBDA s :
        SubSeq(s, 1 + (CHOOSE d \in 0..Len(s) :
                          /\ d = Len(s) \/ CharAt(s, d + 1) # "0"
                          /\ \A j \in 1..d : CharAt(s, j) = "0"),
               Len(s)))

StripTrailingZeros(s0) ==
    Let(s0, LAMBDA s :
        SubSeq(s, 1, Len(s) - (CHOOSE d \in 0..Len(s) :
                          /\ d = Len(s) \/ CharAt(s, Len(s) - d) # "0"
                          /\ \A j \in 0..(d - 1) : CharAt(s, Len(s) - j) = "0")))

Rest(s, n) == SubSeq(s, n + 1, Len(s))

StartsWith(s, chars) == s # "" /\ CharAt(s, 1) \in chars

\* s split after the digits it starts with
SplitDigits(s0) ==
    Let(s0, LAMBDA s : Let(DigitRun(s), LAMBDA run :
        [run |-> run, rest |-> Rest(s, Len(run))]))

\* the value of a short string of digits
RECURSIVE SmallValue(_)
SmallValue(s0) ==
    Let(s0, LAMBDA s :
        IF s = "" THEN 0
        ELSE 10 * SmallValue(SubSeq(s, 1, Len(s) - 1))
             + DigitValue(CharAt(s, Len(s))))

\* the value of what follows the e of a numeral, taken as written.  Only an
\* exponent of ten digits or more is read as 10^9: a string of the engine is
\* shorter than 2^30 characters, so no numeral it can hold has the digits to
\* bring such a power of ten back between the least and the greatest double
ExponentValue(ex0) ==
    Let(ex0, LAMBDA ex :
    Let(StripLeadingZeros(
          DigitRun(IF StartsWith(ex, {"+", "-"}) THEN Tail(ex) ELSE ex)),
        LAMBDA digits :
    Let(IF Len(digits) > 9 THEN 1000000000 ELSE SmallValue(digits),
        LAMBDA size :
        IF StartsWith(ex, {"-"}) THEN 0 - size ELSE size)))

\* a JSON numeral  -? int frac? exp?  as [neg, digits, point]: its value is
\* 0.digits * 10^point, digits without zeros at either end ("" for zero)
NumeralParts(numeral0) ==
    Let(numeral0, LAMBDA numeral :
    Let(SplitDigits(IF StartsWith(numeral, {"-"}) THEN Tail(numeral)
                    ELSE numeral), LAMBDA int :
    Let(IF StartsWith(int.rest, {"."}) THEN SplitDigits(Tail(int.rest))
        ELSE [run |-> "", rest |-> int.rest], LAMBDA frac :
    Let(<<StripLeadingZeros(int.run \o frac.run),
          IF StartsWith(frac.rest, {"e", "E"})
          THEN ExponentValue(Tail(frac.rest)) ELSE 0>>, LAMBDA ae :
    Let(StripTrailingZeros(ae[1]), LAMBDA digits :
        [neg |-> StartsWith(numeral, {"-"}), digits |-> digits,
         point |-> IF digits = "" THEN 0
                   ELSE Len(ae[1]) + ae[2] - Len(frac.run)])))))

\* ---- the nearest double ----
\* [m, e]: the double m * 2^e with m < 2^53; e above MaxExponent stands
\* for Infinity
MinExponent == -1074
MaxExponent == 971
TwoTo53 == NatOfString("9007199254740992")
TwoTo52 == NatOfString("4503599627370496")

\* num \div den and what is left, by long division, for a quotient of at
\* most `places` digits; times[d] = d * den, quot has its highest digit
\* first
RECURSIVE NatDivide(_, _, _, _)
NatDivide(rem0, times, places, quot0) ==
    Let(<<rem0, quot0>>, LAMBDA s :
        IF places = 0
        THEN [quot |-> NatStrip([i \in 1..Len(s[2]) |->
                                    s[2][Len(s[2]) + 1 - i]]),
              rem  |-> s[1]]
        ELSE Let(Cardinality({c \in 1..9 :
                    ~NatLess(s[1], NatShift(times[c], places - 1))}),
                 LAMBDA d :
                 NatDivide(IF d = 0 THEN s[1]
                           ELSE NatSub(s[1],
                                       NatShift(times[d], places - 1)),
                           times, places - 1, Append(s[2], d))))

\* num / den rounded to the nearest whole number, ties to even, the
\* quotient being below 2^53
NatDivideRounded(num, den0) ==
    Let(den0, LAMBDA den :
    Let(NatDivide(num, Let([c \in 1..9 |-> NatMul(den, <<c>>)],
                           LAMBDA times : times), 16, <<>>), LAMBDA div :
    Let(NatDouble(div.rem), LAMBDA twice :
        IF \/ NatLess(den, twice)
           \/ (twice = den /\ NatDigit(div.quot, 1) % 2 = 1)
        THEN NatAdd(div.quot, <<1>>) ELSE div.quot)))

\* the double nearest to digits * 10^exp10 (digits not zero), ties to
\* even: num / den lies between 2^(first + 52) and 2^(first + 54)
ToDouble(digits, exp10) ==
    Let(<<NatShift(NatOfString(digits), IF exp10 > 0 THEN exp10 ELSE 0),
          NatShift(<<1>>, IF exp10 < 0 THEN 0 - exp10 ELSE 0)>>, LAMBDA nd0 :
    Let(NatBits(nd0[1]) - NatBits(nd0[2]) - 53, LAMBDA first :
    Let(IF first < MinExponent THEN MinExponent ELSE first, LAMBDA e1 :
        IF e1 > MaxExponent THEN [m |-> <<>>, e |-> e1]
        ELSE
        Let(<<IF e1 < 0 THEN NatMul(nd0[1], NatPow(<<2>>, 0 - e1))
              ELSE nd0[1],
              IF e1 > 0 THEN NatMul(nd0[2], NatPow(<<2>>, e1))
              ELSE nd0[2]>>, LAMBDA nd :
        Let(~NatLess(nd[1], NatMul(nd[2], TwoTo53)), LAMBDA over :
        Let(NatDivideRounded(nd[1], IF over THEN NatDouble(nd[2])
                                    ELSE nd[2]), LAMBDA m :
            IF m = TwoTo53
            THEN [m |-> TwoTo52, e |-> e1 + (IF over THEN 2 ELSE 1)]
            ELSE [m |-> m, e |-> e1 + (IF over THEN 1 ELSE 0)]))))))

\* ---- the shortest decimal of a double ----
\* the low k digits of a, and a without them
NatLow(a, k)  == NatStrip(SubSeq(a, 1, IF k < Len(a) THEN k ELSE Len(a)))
NatHigh(a, k) == SubSeq(a, k + 1, Len(a))

\* x with its `drop` low digits made zero, rounded down or up, stays
\* within reach of x: nearer than `bound`, or as far when `closed`
DropFits(x, bound, closed, up, drop) ==
    Let(NatLow(x, drop), LAMBDA low :
        \/ low = <<>>
        \/ Let(IF up THEN NatSub(NatShift(<<1>>, drop), low) ELSE low,
               LAMBDA away :
               NatLess(away, bound) \/ (closed /\ away = bound)))

\* the most digits that can be dropped, between lo (which fits) and hi
RECURSIVE MostDropped(_, _, _, _, _, _)
MostDropped(x, bound, closed, up, lo, hi) ==
    IF lo >= hi THEN lo
    ELSE Let((lo + hi + 1) \div 2, LAMBDA mid :
             IF DropFits(x, bound, closed, up, mid)
             THEN MostDropped(x, bound, closed, up, mid, hi)
             ELSE MostDropped(x, bound, closed, up, lo, mid - 1))

\* x with `drop` digits dropped, rounded down (when only that fits, or is
\* nearer, or as near and even) or up
NatRounded(x, drop, downFits, upFits) ==
    Let(<<NatLow(x, drop), NatShift(<<1>>, drop), NatHigh(x, drop)>>,
        LAMBDA lsh :
    Let(<<NatSub(lsh[2], lsh[1]), NatShift(lsh[3], drop)>>, LAMBDA rf :
        IF \/ lsh[1] = <<>>
           \/ ~upFits
           \/ /\ downFits
              /\ \/ NatLess(lsh[1], rf[1])
                 \/ (lsh[1] = rf[1] /\ NatDigit(lsh[3], 1) % 2 = 0)
        THEN rf[2] ELSE NatAdd(rf[2], lsh[2])))

\* [digits, point] of the shortest decimal that reads back as the double
\* d (not 0, finite): x, and the distances to the midpoints of the
\* neighbouring doubles below and above, are whole numbers once multiplied
\* by 10^scale; of the decimals with the fewest digits the nearest to x,
\* the even one when two are as near
ShortestDecimal(d) ==
    Let(IF d.e >= 2 THEN 0 ELSE 2 - d.e, LAMBDA scale :
    Let(NatMul(NatPow(<<5>>, scale), NatPow(<<2>>, d.e + scale - 2)),
        LAMBDA quarter :
    Let(NatDouble(quarter), LAMBDA half :
    Let(<<NatMul(d.m, NatDouble(half)),
          IF d.m = TwoTo52 /\ d.e > MinExponent THEN quarter ELSE half,
          d.m[1] % 2 = 0>>, LAMBDA xbc :
    Let(<<MostDropped(xbc[1], xbc[2], xbc[3], FALSE, 0, Len(xbc[1])),
          MostDropped(xbc[1], half, xbc[3], TRUE, 0, Len(xbc[1]))>>,
        LAMBDA by :
    Let(NatRounded(xbc[1], IF by[1] > by[2] THEN by[1] ELSE by[2],
                   by[1] >= by[2], by[2] >= by[1]), LAMBDA best :
        [digits |-> StripTrailingZeros(
                      StringOfNat(NatHigh(best,
                         (CHOOSE i \in 1..Len(best) :
                             /\ best[i] # 0
                             /\ \A j \in 1..(i - 1) : best[j] = 0) - 1))),
         point  |-> Len(best) - scale]))))))

\* ---- Number::toString ----
RECURSIVE IntToString(_)
IntToString(n) ==
    IF n < 10 THEN DigitChars[n + 1]
    ELSE IntToString(n \div 10) \o DigitChars[(n % 10) + 1]

RECURSIVE Zeros(_)
Zeros(k) == IF k <= 0 THEN "" ELSE "0" \o Zeros(k - 1)

\* Number::toString of the number 0.digits * 10^point
NumberToString(neg, digits, point) ==
    (IF neg THEN "-" ELSE "")
    \o (IF Len(digits) <= point /\ point <= 21
        THEN digits \o Zeros(point - Len(digits))
        ELSE IF 0 < point /\ point <= 21
        THEN SubSeq(digits, 1, point) \o "." \o Rest(digits, point)
        ELSE IF -6 < point /\ point <= 0
        THEN "0." \o Zeros(0 - point) \o digits
        ELSE (IF Len(digits) = 1 THEN digits
              ELSE CharAt(digits, 1) \o "." \o Tail(digits))
             \o "e" \o (IF point < 1 THEN "-" ELSE "+")
             \o IntToString(IF point < 1 THEN 1 - point ELSE point - 1))

\* a decimal of at most 15 digits well inside the range of the normal
\* doubles is itself the shortest decimal of its double
ReadsBackAsItself(p) ==
    Len(p.digits) <= 15 /\ p.point > -290 /\ p.point < 290

\* the Number a JSON numeral stands for, as Number::toString writes it
\* (-0 is written 0)
ToNumber(numeral) ==
    Let(NumeralParts(numeral), LAMBDA p :
        IF p.digits = "" \/ p.point < -330 THEN "0"
        ELSE IF p.point > 310
        THEN (IF p.neg THEN "-Infinity" ELSE "Infinity")
        ELSE IF ReadsBackAsItself(p)
        THEN NumberToString(p.neg, p.digits, p.point)
        ELSE Let(ToDouble(p.digits, p.point - Len(p.digits)), LAMBDA d :
             IF d.e > MaxExponent
             THEN (IF p.neg THEN "-Infinity" ELSE "Infinity")
             ELSE IF d.m = <<>> THEN "0"
             ELSE Let(ShortestDecimal(d), LAMBDA s :
                  NumberToString(p.neg, s.digits, s.point))))

(***************************************************************************)
(* JSON text as lexical tokens.                                            *)
(***************************************************************************)
TPunct(c)  == [k |-> "punct", v |-> c]     \* { } [ ] : ,
TString(s) == [k |-> "string", v |-> s]    \* "..."
TNumber(n) == [k |-> "number", v |-> n]    \* 42
TLit(w)    == [k |-> "lit", v |-> w]       \* null true false
TSpace     == [k |-> "space", v |-> " "]   \* white space
TBad(c)    == [k |-> "bad", v |-> c]       \* no JSON token starts like this

\* JSON.parse as the pushdown automaton of the JSON grammar.  A frame is an
\* object or array under construction; `key` is the member name read last.
Frame(kind) == [kind |-> kind, members |-> <<>>, items |-> <<>>, key |-> ""]

ParseStart(text) ==
    [toks |-> text, stack |-> <<>>, mode |-> "value", val |-> JsUndefined,
     done |-> FALSE, ok |-> FALSE]

ParseStop(st, ok) == [st EXCEPT !.done = TRUE, !.ok = ok]

\* a complete value v has been read: hand it to the enclosing frame
Reduce(st, v) ==
    IF st.stack = <<>>
    THEN [st EXCEPT !.val = v, !.mode = "after"]
    ELSE LET n   == Len(st.stack)
             top == st.stack[n]
         IN IF top.kind = "object"
            THEN [st EXCEPT !.mode = "after",
                            !.stack[n].members = PutKey(top.members, top.key, v)]
            ELSE [st EXCEPT !.mode = "after",
                            !.stack[n].items = Append(top.items, v)]

\* the innermost open object or array is closed
Close(st) ==
    LET n    == Len(st.stack)
        top  == st.stack[n]
        rest == [st EXCEPT !.stack = SubSeq(st.stack, 1, n - 1)]
    IN Reduce(rest, IF top.kind = "object" THEN JsObject(top.members)
                    ELSE JsArray(top.items))

\* one token
ParseStep(st0) ==
    IF st0.toks = <<>>
    THEN ParseStop(st0, st0.mode = "after" /\ st0.stack = <<>>)
    ELSE
    LET h  == Head(st0.toks)
        st == [st0 EXCEPT !.toks = Tail(st0.toks)]
        n  == Len(st0.stack)
    IN
    CASE h.k = "space" -> st
      [] h.k # "space" /\ st0.mode \in {"value", "element"} ->
           CASE h.k = "string" -> Reduce(st, JsString(h.v))
             [] h.k = "number" -> Reduce(st, JsNumber(ToNumber(h.v)))
             [] h = TLit("null")  -> Reduce(st, JsNull)
             [] h = TLit("true")  -> Reduce(st, JsBool(TRUE))
             [] h = TLit("false") -> Reduce(st, JsBool(FALSE))
             [] h = TPunct("{") ->
                  [st EXCEPT !.stack = Append(@, Frame("object")),
                             !.mode = "firstMember"]
             [] h = TPunct("[") ->
                  [st EXCEPT !.stack = Append(@, Frame("array")),
                             !.mode = "element"]
             [] h = TPunct("]") /\ st0.mode = "element"
                  /\ st0.stack[n].items = <<>> -> Close(st)
             [] OTHER -> ParseStop(st, FALSE)
      [] h.k # "space" /\ st0.mode \in {"firstMember", "member"} ->
           CASE h.k = "string" ->
                  [st EXCEPT !.stack[n].key = h.v, !.mode = "colon"]
             [] h = TPunct("}") /\ st0.mode = "firstMember" -> Close(st)
             [] OTHER -> ParseStop(st, FALSE)
      [] h.k # "space" /\ st0.mode = "colon" ->
           IF h = TPunct(":") THEN [st EXCEPT !.mode = "value"]
           ELSE ParseStop(st, FALSE)
      [] h.k # "space" /\ st0.mode = "after" ->
           CASE n = 0 -> ParseStop(st, FALSE)
             [] n > 0 /\ h = TPunct(",") ->
                  [st EXCEPT !.mode = IF st0.stack[n].kind = "object"
                                      THEN "member" ELSE "value"]
             [] n > 0 /\ h = TPunct("}") /\ st0.stack[n].kind = "object" ->
                  Close(st)
             [] n > 0 /\ h = TPunct("]") /\ st0.stack[n].kind = "array" ->
                  Close(st)
             [] OTHER -> ParseStop(st, FALSE)

RECURSIVE ParseRun(_)
ParseRun(st0) ==
    Let(st0, LAMBDA st : IF st.done THEN st ELSE ParseRun(ParseStep(st)))

\* JSON.parse(text): [ok, val]; ~ok is a thrown SyntaxError
JSONParse(text) ==
    Let(ParseRun(ParseStart(text)), LAMBDA st :
        [ok |-> st.ok, val |-> IF st.ok THEN st.val ELSE JsUndefined])

\* JSON.stringify(v), no indentation: a work list of tokens still to write
\* and values still to expand
WTok(tok) == [tok |-> TRUE, t |-> tok, v |-> JsUndefined]
WVal(val) == [tok |-> FALSE, t |-> TSpace, v |-> val]

Expand(v) ==
    CASE v.t = "string"  -> <<WTok(TString(v.s))>>
      [] v.t = "number"  ->
           <<WTok(IF v.n \in {"Infinity", "-Infinity", "NaN"}
                  THEN TLit("null") ELSE TNumber(v.n))>>
      [] v.t = "null"    -> <<WTok(TLit("null"))>>
      [] v.t = "boolean" -> <<WTok(TLit(IF v.b THEN "true" ELSE "false"))>>
      [] v.t = "array"   ->
           <<WTok(TPunct("["))>>
           \o [i \in 1..(2 * Len(v.items)) |->
                 IF i % 2 = 1 THEN WVal(v.items[(i + 1) \div 2])
                 ELSE IF i = 2 * Len(v.items) THEN WTok(TPunct("]"))
                 ELSE WTok(TPunct(","))]
           \o (IF v.items = <<>> THEN <<WTok(TPunct("]"))>> ELSE <<>>)
      [] v.t = "object"  ->
           <<WTok(TPunct("{"))>>
           \o [i \in 1..(4 * Len(v.members)) |->
                 CASE i % 4 = 1 -> WTok(TString(v.members[(i + 3) \div 4].key))
                   [] i % 4 = 2 -> WTok(TPunct(":"))
                   [] i % 4 = 3 -> WVal(v.members[(i + 3) \div 4].val)
                   [] OTHER     -> IF i = 4 * Len(v.members)
                                   THEN WTok(TPunct("}"))
                                   ELSE WTok(TPunct(","))]
           \o (IF v.members = <<>> THEN <<WTok(TPunct("}"))>> ELSE <<>>)
      [] OTHER -> <<>>

RECURSIVE StringifyRun(_, _)
StringifyRun(work0, out0) ==
    Let(<<work0, out0>>, LAMBDA s :
        LET work == s[1]
            out  == s[2]
        IN IF work = <<>> THEN out
           ELSE IF Head(work).tok
           THEN StringifyRun(Tail(work), Append(out, Head(work).t))
           ELSE StringifyRun(Expand(Head(work).v) \o Tail(work), out))

JSONStringify(v) == StringifyRun(<<WVal(v)>>, <<>>)

(***************************************************************************)
(* The config file and the errors of the loader.                           *)
(***************************************************************************)
FileAbsent     == [code |-> "ENOENT", text |-> <<>>]   \* no such file
FileUnreadable == [code |-> "EACCES", text |-> <<>>]   \* no read permission
FileWith(text) == [code |-> "OK", text |-> text]

NoError        == [class |-> "", code |-> "", message |-> ""]
ErrnoError(c)  == [class |-> "Error", code |-> c, message |-> "fs"]
SyntaxError    == [class |-> "SyntaxError", code |-> "",
                   message |-> "Unexpected token"]
NewError(m)    == [class |-> "Error", code |-> "", message |-> m]

MsgInvalidStructure ==
    "Invalid power.config.json structure. Missing environmentId."
MsgInvalidStructureEarly == "Invalid power.config.json structure"
MsgMissingFile ==
    "Missing file. Ensure you have run 'pac code init' first. power.config.json expected at <configPath>."
MsgInvalidJson == "Invalid JSON in power.config.json: Unexpected token"

\* a completed call: [threw, error, value]
Returned(v) == [threw |-> FALSE, error |-> NoError, value |-> v]
Thrown(e)   == [threw |-> TRUE, error |-> e, value |-> JsUndefined]

\* fs.readFileSync(configPath, "utf-8")
readFileSync(f) ==
    IF f.code = "OK" THEN Returned(f.text) ELSE Thrown(ErrnoError(f.code))

(***************************************************************************)
(* picocolors and the logger.                                              *)
(***************************************************************************)
\* the character U+001B
ESC == ""

\* the string a sequence of template parts is
RECURSIVE Joined(_)
Joined(pieces) ==
    IF pieces = <<>> THEN "" ELSE Head(pieces) \o Joined(Tail(pieces))

\* string.indexOf(search, from): the least index (from 0) at or after from
\* where search is found, -1 without one
IndexOf(string, search, from) ==
    Let(IF from < 0 THEN 0
        ELSE IF from > Len(string) THEN Len(string) ELSE from,
        LAMBDA first :
    Let({i \in first..(Len(string) - Len(search)) :
            SubSeq(string, i + 1, i + Len(search)) = search},
        LAMBDA found :
        IF found = {} THEN -1
        ELSE CHOOSE i \in found : \A j \in found : i <= j))

\* replaceClose: the close at index and every close after it give way to
\* replace
RECURSIVE replaceClose(_, _, _, _)
replaceClose(string, close, replace, index) ==
    Let(SubSeq(string, index + Len(close) + 1, Len(string)), LAMBDA rest :
    Let(IndexOf(rest, close, 0), LAMBDA next :
        SubSeq(string, 1, index) \o replace
        \o (IF next >= 0 THEN replaceClose(rest, close, replace, next)
            ELSE rest)))

\* formatter(open, close): colours off is String; colours on wrap the
\* string between open and close, and a close the string holds at index
\* open.length or later is replaced by open, with every close after it
PcFormat(color, open, close, str) ==
    IF ~color THEN str
    ELSE Let(Joined(str), LAMBDA string :
         Let(IndexOf(string, close, Len(open)), LAMBDA index :
             IF index >= 0
             THEN <<open, replaceClose(string, close, open, index), close>>
             ELSE <<open>> \o str \o <<close>>))

PcRed(color, str) ==
    PcFormat(color, ESC \o "[31m", ESC \o "[39m", str)
PcYellow(color, str) ==
    PcFormat(color, ESC \o "[33m", ESC \o "[39m", str)
PcMagenta(color, str) ==
    PcFormat(color, ESC \o "[35m", ESC \o "[39m", str)
PcMagentaBright(color, str) ==
    PcFormat(color, ESC \o "[95m", ESC \o "[39m", str)
PcReset(color, str) ==
    PcFormat(color, ESC \o "[0m", ESC \o "[0m", str)

\* ${x} of a JavaScript string inside a template literal
Piece(s) == IF s = "" THEN <<>> ELSE <<s>>

LogEntry(level, text) == [level |-> level, text |-> text]

(***************************************************************************)
(* The config loader.                                                      *)
(***************************************************************************)
\* a guard without the typeof test on environmentId
isPowerConfigNoType(obj) ==
    /\ TypeOf(obj) = "object"
    /\ obj # JsNull
    /\ HasKey(obj, "environmentId")

\* isPowerConfig(obj)                                   App.tsx:289-296
isPowerConfig(obj) ==
    /\ TypeOf(obj) = "object"
    /\ obj # JsNull
    /\ HasKey(obj, "environmentId")
    /\ TypeOf(GetKey(obj, "environmentId")) = "string"

\* The try block of getPowerConfig: readFileSync, JSON.parse, isPowerConfig.
\* `invalid` is the message of the Error thrown for a failed type guard.
LoadBody(f, invalid) ==
    LET content == readFileSync(f) IN
    IF content.threw THEN Thrown(content.error)
    ELSE Let(JSONParse(content.value), LAMBDA parsed :
         IF ~parsed.ok THEN Thrown(SyntaxError)
         ELSE IF ~isPowerConfig(parsed.val) THEN Thrown(NewError(invalid))
         ELSE Returned(parsed.val))

CatchLateNoCode(error) ==
    IF error.class = "Error" THEN NewError(MsgMissingFile)
    ELSE IF error.class = "SyntaxError" THEN NewError(MsgInvalidJson)
    ELSE error

\* The catch block of the later getPowerConfig       App.tsx:317-328
CatchLate(error) ==
    IF error.code = "ENOENT" THEN NewError(MsgMissingFile)
    ELSE IF error.class = "SyntaxError" THEN NewError(MsgInvalidJson)
    ELSE error

\* A call of getPowerConfig: [threw, error, value, cache, read, logs]
\* cache is the cache after the call, read says whether the file was read.
Call(r, cache, read, logs) ==
    [threw |-> r.threw, error |-> r.error, value |-> r.value,
     cache |-> cache, read |-> read, logs |-> logs]

getPowerConfigNoCache(cache, f) ==
    Let(LoadBody(f, MsgInvalidStructure), LAMBDA body :
        IF body.threw
        THEN Call(Thrown(CatchLate(body.error)), cache, TRUE, <<>>)
        ELSE Call(body, body.value, TRUE, <<>>))

\* a getPowerConfig that trusts its cache only while the file is there
getPowerConfigWhileFileExists(cache, f) ==
    IF Truthy(cache) /\ f.code # "ENOENT"
    THEN Call(Returned(cache), cache, FALSE, <<>>)
    ELSE Let(LoadBody(f, MsgInvalidStructure), LAMBDA body :
         IF body.threw
         THEN Call(Thrown(CatchLate(body.error)), JsNull, TRUE, <<>>)
         ELSE Call(body, body.value, TRUE, <<>>))

\* a getPowerConfig that fills the cache before it validates
getPowerConfigCachesUnchecked(cache, f) ==
    IF Truthy(cache) THEN Call(Returned(cache), cache, FALSE, <<>>)
    ELSE Let(LoadBody(f, MsgInvalidStructure), LAMBDA body :
         IF body.threw
         THEN Call(Thrown(CatchLate(body.error)),
                   IF body.error.message = MsgInvalidStructure
                   THEN JSONParse(f.text).val ELSE cache,
                   TRUE, <<>>)
         ELSE Call(body, body.value, TRUE, <<>>))

\* getPowerConfig(server), later plugin                App.tsx:298-329
getPowerConfig(cache, f) ==
    IF Truthy(cache) THEN Call(Returned(cache), cache, FALSE, <<>>)
    ELSE Let(LoadBody(f, MsgInvalidStructure), LAMBDA body :
         IF body.threw
         THEN Call(Thrown(CatchLate(body.error)), cache, TRUE, <<>>)
         ELSE Call(body, body.value, TRUE, <<>>))

\* What the earlier getPowerConfig logs before it rethrows  App.tsx:112-141
LogsEarly(error, color) ==
    (IF error.message = MsgInvalidStructureEarly
     THEN <<LogEntry("error",
              <<"[powerApps] Invalid power.config.json: missing or invalid environmentId">>)>>
     ELSE <<>>)
    \o
    (IF error.code = "ENOENT"
     THEN <<LogEntry("error", PcRed(color,
              <<"[powerApps] power.config.json not found at: ", "<configPath>">>)),
            LogEntry("warn", PcYellow(color,
              <<"[powerApps] Ensure you have run 'pac code init' first.">>))>>
     ELSE IF error.class = "SyntaxError"
     THEN <<LogEntry("error", PcRed(color,
              <<"[powerApps] Invalid JSON in power.config.json: ", error.message>>))>>
     ELSE <<LogEntry("error", PcRed(color,
              <<"[powerApps] Error loading power.config.json: ",
                "Error: ", error.message>>))>>)

\* getPowerConfig(server), earlier plugin              App.tsx:100-143
getPowerConfigEarly(cache, f, color) ==
    IF Truthy(cache) THEN Call(Returned(cache), cache, FALSE, <<>>)
    ELSE Let(LoadBody(f, MsgInvalidStructureEarly), LAMBDA body :
         IF body.threw
         THEN Call(body, cache, TRUE, LogsEarly(body.error, color))
         ELSE Call(body, body.value, TRUE, <<>>))

(***************************************************************************)
(* The origin allow-list.  An origin is matched character by character.    *)
(***************************************************************************)
\* the characters of the words origins are written with
Chars(w) ==
    CASE w = "http" -> <<"h", "t", "t", "p">>
      [] w = "https" -> <<"h", "t", "t", "p", "s">>
      [] w = "ftp" -> <<"f", "t", "p">>
      [] w = "://" -> <<":", "/", "/">>
      [] w = "localhost" -> <<"l", "o", "c", "a", "l", "h", "o", "s", "t">>
      [] w = "apps" -> <<"a", "p", "p", "s">>
      [] w = "powerapps" -> <<"p", "o", "w", "e", "r", "a", "p", "p", "s">>
      [] w = "com" -> <<"c", "o", "m">>
      [] w = "evil" -> <<"e", "v", "i", "l">>
      [] w = "127.0.0.1" -> <<"1", "2", "7", ".", "0", ".", "0", ".", "1">>
      [] w = "[::1]" -> <<"[", ":", ":", "1", "]">>
      [] w = "10.0.0.1" -> <<"1", "0", ".", "0", ".", "0", ".", "1">>
      [] w = ":5173" -> <<":", "5", "1", "7", "3">>
      [] w = ":80a" -> <<":", "8", "0", "a">>
      [] w = "/" -> <<"/">>
      [] w = "." -> <<".">>
      [] OTHER -> <<>>

IsPrefix(p, s) == Len(p) <= Len(s) /\ SubSeq(s, 1, Len(p)) = p
Drop(s, n)     == SubSeq(s, n + 1, Len(s))
NoChar(s, c)   == \A i \in 1..Len(s) : s[i] # c
Digit          == {"0", "1", "2", "3", "4", "5", "6", "7", "8", "9"}

\* (?::\d+)?$
MatchPortOpt(s) ==
    \/ s = <<>>
    \/ /\ Len(s) >= 2
       /\ s[1] = ":"
       /\ \A i \in 2..Len(s) : s[i] \in Digit

\* (?:[^:]+\.)?localhost
MatchLocalhostName(h) ==
    \/ h = Chars("localhost")
    \/ \E k \in 1..Len(h) :
          /\ NoChar(SubSeq(h, 1, k), ":")
          /\ k < Len(h)
          /\ h[k + 1] = "."
          /\ Drop(h, k + 1) = Chars("localhost")

\* (?:(?:[^:]+\.)?localhost|127\.0\.0\.1|\[::1\])
MatchLoopbackHost(h) ==
    \/ MatchLocalhostName(h)
    \/ h = Chars("127.0.0.1")
    \/ h = Chars("[::1]")

\* /^https?:\/\/(?:(?:[^:]+\.)?localhost|127\.0\.0\.1|\[::1\])(?::\d+)?$/
MatchLocalOrigin(s) ==
    \E scheme \in {"http", "https"} :
        LET p == Chars(scheme) \o Chars("://") IN
        /\ IsPrefix(p, s)
        /\ LET rest == Drop(s, Len(p)) IN
           \E j \in 0..Len(rest) :
               /\ MatchLoopbackHost(SubSeq(rest, 1, j))
               /\ MatchPortOpt(Drop(rest, j))

MatchAppsOriginAnyScheme(s) ==
    \E scheme \in {"http", "https"} :
        s = Chars(scheme) \o Chars("://") \o Chars("apps") \o Chars(".")
            \o Chars("powerapps") \o Chars(".") \o Chars("com")

\* /^https:\/\/apps\.powerapps\.com$/
MatchAppsOrigin(s) ==
    s = Chars("https") \o Chars("://") \o Chars("apps") \o Chars(".")
        \o Chars("powerapps") \o Chars(".") \o Chars("com")

\* (?:[^.]+\.)*  matching all of m
RECURSIVE MatchLabelsStar(_)
MatchLabelsStar(m) ==
    \/ m = <<>>
    \/ \E k \in 1..Len(m) :
          /\ NoChar(SubSeq(m, 1, k), ".")
          /\ k < Len(m)
          /\ m[k + 1] = "."
          /\ MatchLabelsStar(Drop(m, k + 1))

\* /^https:\/\/apps\.(?:[^.]+\.)*powerapps\.com$/
MatchAppsSubOrigin(s) ==
    LET p == Chars("https") \o Chars("://") \o Chars("apps") \o Chars(".") IN
    /\ IsPrefix(p, s)
    /\ LET rest == Drop(s, Len(p)) IN
       \E j \in 0..Len(rest) :
           /\ MatchLabelsStar(SubSeq(rest, 1, j))
           /\ Drop(rest, j) = Chars("powerapps") \o Chars(".") \o Chars("com")

\* pattern.test(s) for the patterns of powerAppsCorsOrigins, by index
RegExpTest(pattern, s) ==
    CASE pattern = "local"   -> MatchLocalOrigin(s)
      [] pattern = "apps"    -> MatchAppsOrigin(s)
      [] pattern = "appsSub" -> MatchAppsSubOrigin(s)

\* const powerAppsCorsOrigins = [...]                 App.tsx:220-227
powerAppsCorsOrigins == <<"local", "apps", "appsSub">>

\* origin && powerAppsCorsOrigins.some((pattern) => pattern.test(origin))
\*                                                    App.tsx:407-410
isAllowed(origin) ==
    /\ Truthy(origin)
    /\ \E i \in 1..Len(powerAppsCorsOrigins) :
          RegExpTest(powerAppsCorsOrigins[i], origin.chars)

(***************************************************************************)
(* What a handler did: the shape of `last`.                                *)
(***************************************************************************)
NoRequest  == [method |-> "", origin |-> JsUndefined]
NoServer   == [resolvedUrls |-> JsNull, address |-> JsNull, https |-> JsUndefined]
\* a fresh http.ServerResponse: no header set, statusCode 200, not ended
NewResponse ==
    [acao |-> JsUndefined, acam |-> JsUndefined, acah |-> JsUndefined,
     contentType |-> JsUndefined, cacheControl |-> JsUndefined,
     statusCode |-> 200, body |-> <<>>, ended |-> FALSE]

Outcome(op, cache) ==
    [op          |-> op,            \* "none" "write" "request" "listening" "change"
     req         |-> NoRequest,     \* the request handled
     server      |-> NoServer,      \* what the server object held
     path        |-> "",            \* the path of the change event
     cacheBefore |-> cache,         \* cachedPowerConfig when the handler began
     cache       |-> cache,         \* cachedPowerConfig when it ended
     called      |-> FALSE,         \* getPowerConfig was called
     read        |-> FALSE,         \* ... and read the file
     threw       |-> FALSE,         \* ... and threw
     error       |-> NoError,       \* ... this error
     value       |-> JsUndefined,   \* ... or returned this record
     logs        |-> <<>>,          \* logger calls, in order
     res         |-> NewResponse,   \* the response as the handler left it
     printed     |-> JsNull,        \* the play URL given to logger.info
     escaped     |-> FALSE,         \* an exception left the handler
     restart     |-> FALSE]         \* server.restart() was called

WithCall(out, call) ==
    [out EXCEPT !.called = TRUE, !.read = call.read, !.threw = call.threw,
                !.error = call.error, !.value = call.value,
                !.cache = call.cache, !.logs = out.logs \o call.logs]

\* a base URL that keeps the raw host
getLocalBaseUrlRawHost(server) ==
    LET first == IF server.resolvedUrls = JsNull
                    \/ server.resolvedUrls.local = <<>>
                 THEN JsUndefined
                 ELSE server.resolvedUrls.local[1]
        address == server.address
    IN IF Truthy(first) THEN first
       ELSE IF TypeOf(address) = "string" THEN address
       ELSE IF TypeOf(address) = "object" /\ address # JsNull
       THEN JsText(<<IF Truthy(server.https) THEN "https" ELSE "http",
                     "://", address.address, ":", address.port, "/">>)
       ELSE JsNull

(***************************************************************************)
(* getLocalBaseUrl(server)                             App.tsx:266-283     *)
(***************************************************************************)
getLocalBaseUrl(server) ==
    LET first == IF server.resolvedUrls = JsNull
                    \/ server.resolvedUrls.local = <<>>
                 THEN JsUndefined
                 ELSE server.resolvedUrls.local[1]
        address == server.address
    IN IF Truthy(first) THEN first
       ELSE IF TypeOf(address) = "string" THEN address
       ELSE IF TypeOf(address) = "object" /\ address # JsNull
       THEN LET host == IF address.address = "::1" THEN "localhost"
                        ELSE address.address
            IN JsText(<<IF Truthy(server.https) THEN "https" ELSE "http",
                        "://", host, ":", address.port, "/">>)
       ELSE JsNull

\* a config path under another prefix
powerConfigPathOther == "__powerapps__/power.config.json"

\* const powerConfigPath                               App.tsx:229
powerConfigPath == "__vite_powerapps_plugin__/power.config.json"

(***************************************************************************)
(* printLocalPlayUrl: the "listening" handler.                             *)
(***************************************************************************)
\* App.tsx:362-398, the same in both plugins (App.tsx:149-185)
PrintTail(out, powerConfig, server, color) ==
    LET environmentId == GetKey(powerConfig, "environmentId")
        baseUrl       == getLocalBaseUrl(server)
    IN IF ~Truthy(environmentId)
       THEN [out EXCEPT !.logs = @ \o <<LogEntry("error",
               <<"[powerApps] environmentId is not defined in power.config.json">>)>>]
       ELSE IF ~Truthy(baseUrl)
       THEN [out EXCEPT !.logs = @ \o <<LogEntry("error",
               <<"[powerApps] Unable to determine vite dev server URL">>)>>]
       ELSE LET localAppUrl        == baseUrl.pieces
                localConnectionUrl == baseUrl.pieces \o <<powerConfigPath>>
                playUrl ==
                    PcMagenta(color, <<"https://apps.powerapps.com/play/e/">>)
                    \o PcMagentaBright(color, Piece(environmentId.s))
                    \o PcMagenta(color, <<"/a/local">>)
                    \o PcMagenta(color, <<"?_localAppUrl=">>)
                    \o PcMagentaBright(color, localAppUrl)
                    \o PcMagenta(color, <<"&_localConnectionUrl=">>)
                    \o PcMagentaBright(color, localConnectionUrl)
                    \o PcReset(color, <<>>)
            IN [out EXCEPT
                  !.printed = JsText(playUrl),
                  !.logs = @ \o
                    <<LogEntry("info", <<"  ">>
                        \o PcMagentaBright(color, <<"Power Apps Vite Plugin">>)
                        \o <<"\n">>),
                      LogEntry("info", <<"  ">> \o PcMagenta(color, <<"->">>)
                        \o <<"  Local Play:   ">> \o playUrl)>>]

\* later plugin                                        App.tsx:349-400
printLocalPlayUrl(cache, f, server, color) ==
    Let(getPowerConfig(cache, f), LAMBDA call :
        LET out == WithCall(
                     [Outcome("listening", cache) EXCEPT !.server = server], call)
        IN IF call.threw
           THEN [out EXCEPT !.logs = @ \o <<LogEntry("error", PcRed(color,
                   <<"[powerApps] Error loading power.config.json:\n            -> ",
                     call.error.message>>))>>]
           ELSE PrintTail(out, call.value, server, color))

\* earlier plugin: no try/catch around getPowerConfig  App.tsx:146-187
printLocalPlayUrlEarly(cache, f, server, color) ==
    Let(getPowerConfigEarly(cache, f, color), LAMBDA call :
        LET out == WithCall(
                     [Outcome("listening", cache) EXCEPT !.server = server], call)
        IN IF call.threw THEN [out EXCEPT !.escaped = TRUE]
           ELSE PrintTail(out, call.value, server, color))

(***************************************************************************)
(* servePowerConfig: the middleware on /<powerConfigPath>.                 *)
(***************************************************************************)
\* The manual CORS headers                             App.tsx:406-414
CorsHeadersAlways(res, origin) ==
    [res EXCEPT !.acao = origin,
                !.acam = JsString("GET, OPTIONS"),
                !.acah = JsString("*")]

\* headers that forget Allow-Methods and Allow-Headers
CorsHeadersOriginOnly(res, origin) ==
    IF isAllowed(origin) THEN [res EXCEPT !.acao = origin] ELSE res

CorsHeaders(res, origin) ==
    IF isAllowed(origin)
    THEN [res EXCEPT !.acao = origin,
                     !.acam = JsString("GET, OPTIONS"),
                     !.acah = JsString("*")]
    ELSE res

\* res.end(body)
End(res, body) == [res EXCEPT !.body = body, !.ended = TRUE]

\* res.setHeader of Content-Type and Cache-Control     App.tsx:421-422
JsonHeaders(res) ==
    [res EXCEPT !.contentType = JsString("application/json; charset=utf-8"),
                !.cacheControl = JsString("no-store")]

servePowerConfigLoadFirst(cache, f, req, color) ==
    Let(<<CorsHeaders(NewResponse, req.origin), getPowerConfig(cache, f)>>,
        LAMBDA s :
        LET res1 == s[1]
            call == s[2]
            out  == WithCall([Outcome("request", cache) EXCEPT !.req = req],
                             call)
        IN IF req.method = "OPTIONS"
           THEN [out EXCEPT !.res = End([res1 EXCEPT !.statusCode = 204], <<>>)]
           ELSE IF call.threw
           THEN [out EXCEPT !.res = End(JsonHeaders(res1), <<>>)]
           ELSE [out EXCEPT
                   !.res = End(JsonHeaders(res1), JSONStringify(call.value))])

\* a handler that answers the pre-flight only for allowed origins
servePowerConfigAllowedPreflight(cache, f, req, color) ==
    Let(CorsHeaders(NewResponse, req.origin), LAMBDA res1 :
        LET out0 == [Outcome("request", cache) EXCEPT !.req = req] IN
        IF req.method = "OPTIONS" /\ isAllowed(req.origin)
        THEN [out0 EXCEPT !.res = End([res1 EXCEPT !.statusCode = 204], <<>>)]
        ELSE Let(getPowerConfig(cache, f), LAMBDA call :
             LET res2 == JsonHeaders(res1)
                 out  == WithCall(out0, call)
             IN IF call.threw
                THEN [out EXCEPT
                        !.logs = @ \o <<LogEntry("error", PcRed(color,
                            <<"[powerApps] Error serving power.config.json:\n            -> ",
                              call.error.message>>))>>,
                        !.res = End(res2, <<>>)]
                ELSE [out EXCEPT
                        !.res = End(res2, JSONStringify(call.value))]))

\* a handler that sends the environmentId alone
servePowerConfigIdOnly(cache, f, req, color) ==
    Let(CorsHeaders(NewResponse, req.origin), LAMBDA res1 :
        LET out0 == [Outcome("request", cache) EXCEPT !.req = req] IN
        IF req.method = "OPTIONS"
        THEN [out0 EXCEPT !.res = End([res1 EXCEPT !.statusCode = 204], <<>>)]
        ELSE Let(getPowerConfig(cache, f), LAMBDA call :
             LET res2 == JsonHeaders(res1)
                 out  == WithCall(out0, call)
             IN IF call.threw
                THEN [out EXCEPT
                        !.logs = @ \o <<LogEntry("error", PcRed(color,
                            <<"[powerApps] Error serving power.config.json:\n            -> ",
                              call.error.message>>))>>,
                        !.res = End(res2, <<>>)]
                ELSE [out EXCEPT
                        !.res = End(res2, JSONStringify(JsObject(
                           <<[key |-> "environmentId",
                              val |-> GetKey(call.value, "environmentId")]>>)))]))

\* later plugin                                        App.tsx:403-438
servePowerConfig(cache, f, req, color) ==
    Let(CorsHeaders(NewResponse, req.origin), LAMBDA res1 :
        LET out0 == [Outcome("request", cache) EXCEPT !.req = req] IN
        IF req.method = "OPTIONS"
        THEN [out0 EXCEPT !.res = End([res1 EXCEPT !.statusCode = 204], <<>>)]
        ELSE Let(getPowerConfig(cache, f), LAMBDA call :
             LET res2 == JsonHeaders(res1)
                 out  == WithCall(out0, call)
             IN IF call.threw
                THEN [out EXCEPT
                        !.logs = @ \o <<LogEntry("error", PcRed(color,
                            <<"[powerApps] Error serving power.config.json:\n            -> ",
                              call.error.message>>))>>,
                        !.res = End(res2, <<>>)]
                ELSE [out EXCEPT
                        !.res = End(res2, JSONStringify(call.value))]))

\* earlier plugin: no try/catch around getPowerConfig  App.tsx:190-213
servePowerConfigEarly(cache, f, req, color) ==
    Let(CorsHeaders(NewResponse, req.origin), LAMBDA res1 :
        LET out0 == [Outcome("request", cache) EXCEPT !.req = req] IN
        IF req.method = "OPTIONS"
        THEN [out0 EXCEPT !.res = End([res1 EXCEPT !.statusCode = 204], <<>>)]
        ELSE Let(getPowerConfigEarly(cache, f, color), LAMBDA call :
             LET res2 == JsonHeaders(res1)
                 out  == WithCall(out0, call)
             IN IF call.threw
                THEN [out EXCEPT !.escaped = TRUE, !.res = res2]
                ELSE [out EXCEPT
                        !.res = End(res2, JSONStringify(call.value))]))

(***************************************************************************)
(* watchPowerConfig: the "change" handler of the later plugin.             *)
(***************************************************************************)
\* path.join(server.config.root, "power.config.json")  App.tsx:332
configPath == "<root>/power.config.json"

watchPowerConfigNoRestart(cache, changed, color) ==
    LET out == [Outcome("change", cache) EXCEPT !.path = changed] IN
    IF changed = configPath
    THEN [out EXCEPT
            !.logs = <<LogEntry("info", PcYellow(color,
               <<"[powerApps] power.config.json changed, restarting server...">>))>>,
            !.cache = JsNull]
    ELSE out

\* a listener that takes every change for one of the configuration file
watchPowerConfigAnyPath(cache, changed, color) ==
    [Outcome("change", cache) EXCEPT
        !.path = changed,
        !.logs = <<LogEntry("info", PcYellow(color,
           <<"[powerApps] power.config.json changed, restarting server...">>))>>,
        !.cache = JsNull,
        !.restart = TRUE]

watchPowerConfigKeepCache(cache, changed, color) ==
    LET out == [Outcome("change", cache) EXCEPT !.path = changed] IN
    IF changed = configPath
    THEN [out EXCEPT
            !.logs = <<LogEntry("info", PcYellow(color,
               <<"[powerApps] power.config.json changed, restarting server...">>))>>,
            !.restart = TRUE]
    ELSE out

\* (file) => { if (file === configPath) ... }          App.tsx:334-345
watchPowerConfig(cache, changed, color) ==
    LET out == [Outcome("change", cache) EXCEPT !.path = changed] IN
    IF changed = configPath
    THEN [out EXCEPT
            !.logs = <<LogEntry("info", PcYellow(color,
               <<"[powerApps] power.config.json changed, restarting server...">>))>>,
            !.cache = JsNull,
            !.restart = TRUE]
    ELSE out

(***************************************************************************)
(* The inputs explored.                                                    *)
(***************************************************************************)
TObject(members) == <<TPunct("{")>> \o members \o <<TPunct("}")>>
TMember(key, value) == <<TString(key), TPunct(":")>> \o value
TComma == <<TPunct(",")>>

TxtGarbage       == <<TBad("#")>>
TxtTruncated     == <<TPunct("{"), TString("environmentId"), TPunct(":")>>
TxtTrailingComma ==
    TObject(TMember("environmentId", <<TString("abc-123")>>) \o TComma)
TxtNull          == <<TLit("null")>>
TxtString        == <<TString("abc-123")>>
TxtArray         == <<TPunct("["), TString("environmentId"), TPunct("]")>>
TxtNoId          == TObject(TMember("appId", <<TString("app-1")>>))
TxtNumericId     == TObject(TMember("environmentId", <<TNumber("42")>>))
TxtEmptyId       == TObject(TMember("environmentId", <<TString("")>>))
TxtValid         == TObject(TMember("environmentId", <<TString("abc-123")>>))
TxtValidSpaced   ==
    <<TSpace, TPunct("{"), TSpace, TString("environmentId"), TPunct(":"),
      TSpace, TString("abc-123"), TSpace, TPunct("}"), TSpace>>
TxtValidFull     ==
    TObject(TMember("appId", <<TString("app-1")>>) \o TComma
            \o TMember("environmentId", <<TString("abc-123")>>) \o TComma
            \o TMember("connectionReferences", TObject(<<>>)))
\* {"environmentId":"12345\u001b[39mX"}: another environment, its id with a
\* colour-closing escape sequence in it
TxtValidOther    ==
    TObject(TMember("environmentId",
                    <<TString("12345" \o ESC \o "[39mX")>>))
TxtDuplicateId   ==
    TObject(TMember("environmentId", <<TNumber("42")>>) \o TComma
            \o TMember("environmentId", <<TString("abc-123")>>))
\* {"environmentId":"abc-123","n":1.0,"1":"x"}
TxtValidIndexed  ==
    TObject(TMember("environmentId", <<TString("abc-123")>>) \o TComma
            \o TMember("n", <<TNumber("1.0")>>) \o TComma
            \o TMember("1", <<TString("x")>>))

Texts ==
    {TxtGarbage, TxtTruncated, TxtTrailingComma, TxtNull, TxtString, TxtArray,
     TxtNoId, TxtNumericId, TxtEmptyId, TxtValid, TxtValidSpaced, TxtValidFull,
     TxtValidOther, TxtDuplicateId, TxtValidIndexed}

\* the states of power.config.json on disk
Files == {FileAbsent, FileUnreadable} \cup {FileWith(t) : t \in Texts}

\* origins, by their parts
Labels       == {"localhost", "apps", "powerapps", "com", "evil"}
HostLiterals == {"127.0.0.1", "[::1]", "10.0.0.1"}

RECURSIVE LabelSeqs(_)
LabelSeqs(n) ==
    IF n = 0 THEN {<<>>}
    ELSE {Append(h, l) : h \in LabelSeqs(n - 1), l \in Labels}

Hosts(n) ==
    {<<h>> : h \in HostLiterals} \cup UNION {LabelSeqs(k) : k \in 1..n}

OriginsOver(hosts) ==
    [scheme : {"http", "https", "ftp"}, host : hosts,
     port : {"", ":5173", ":80a"}, tail : {"", "/"}]

RECURSIVE JoinDots(_)
JoinDots(host) ==
    IF host = <<>> THEN <<>>
    ELSE IF Len(host) = 1 THEN Chars(host[1])
    ELSE Chars(host[1]) \o Chars(".") \o JoinDots(Tail(host))

\* the serialized origin: scheme "://" host [":" port]
Render(o) ==
    Chars(o.scheme) \o Chars("://") \o JoinDots(o.host) \o Chars(o.port)
    \o Chars(o.tail)

Origin(scheme, host, port) ==
    [scheme |-> scheme, host |-> host, port |-> port, tail |-> ""]

\* req.headers.origin of the requests explored
RequestOrigins ==
    {JsUndefined, JsChars(<<>>)} \cup
    {JsChars(Render(o)) : o \in
        {Origin("http", <<"localhost">>, ":5173"),
         Origin("https", <<"apps", "powerapps", "com">>, ""),
         Origin("https", <<"evil", "com">>, "")}}

Methods == {"GET", "POST", "OPTIONS"}

Requests == [method : Methods, origin : RequestOrigins]

\* server.resolvedUrls, server.httpServer.address(), server.config.server.https
Servers ==
    [resolvedUrls :
        {JsNull, [t |-> "urls", local |-> <<>>],
         [t |-> "urls", local |-> <<JsText(<<"http://localhost:5173/">>)>>]},
     address :
        {JsNull, JsText(<<"/tmp/vite.sock">>),
         [t |-> "address", address |-> "::1", port |-> "5173"],
         [t |-> "address", address |-> "127.0.0.1", port |-> "3000"]},
     https : {JsUndefined, JsObject(<<>>)}]

\* the paths the watcher reports
ChangedPaths == {configPath, "<root>/src/App.tsx"}

\* phase: "none", "pending" (no getPowerConfig call since), "answered" (the
\* last step was the first getPowerConfig call since)
NoInvalidation == [phase |-> "none", dropped |-> JsNull]
NoProvenance == [file |-> FileAbsent, read |-> FALSE, fresh |-> FALSE]

\* useState initial values of useLookupResolver       useLookupResolver.ts:82-89
NoLookups ==
    [createdBy |-> "", currency |-> "", parentContact |-> "",
     managingPartner |-> "", owningTeam |-> ""]
NoLoad  == [response |-> "none", escaped |-> FALSE, before |-> <<>>]

\* the seven fields of an empty form                    ContactForm.tsx:87-95
BlankForm ==
    [firstname |-> "", lastname |-> "", emailaddress1 |-> "",
     telephone1 |-> "", mobilephone |-> "", jobtitle |-> "",
     managingpartnerid |-> ""]

\* the browser shows no page of the template
PageClosed ==
    /\ page = "closed"
    /\ count = 0
    /\ theme = "light"
    /\ clicks = 0

\* ContactForm as its first render leaves it           ContactForm.tsx:87-98
FormMounted ==
    /\ selectedContact = JsNull
    /\ isCreating = FALSE
    /\ formData = BlankForm
    /\ hasUnsavedChanges = FALSE
    /\ submits = <<>>
    /\ clean = [loaded |-> BlankForm, submitted |-> JsNull, by |-> "mount",
                cancelled |-> FALSE]

\* no page is open: the hooks are not mounted
HooksUnmounted ==
    /\ PageClosed
    /\ FormMounted
    /\ contact = JsNull
    /\ resolvedLookups = NoLookups
    /\ loading = FALSE
    /\ runs = <<>>
    /\ services = "found"
    /\ accounts = <<>>
    /\ accountsLoading = TRUE
    /\ loads = 0
    /\ lastLoad = NoLoad
    /\ started = 0

(***************************************************************************)
(* The dev server process.                                                 *)
(***************************************************************************)
Init ==
    /\ plugin \in {"early", "late"}
    /\ httpServer \in BOOLEAN
    /\ file \in Files
    /\ cachedPowerConfig = JsNull
    /\ listenPending = httpServer
    /\ accepting = ~httpServer
    /\ crashed = FALSE
    /\ isColorSupported \in BOOLEAN
    /\ loaded = JsNull
    /\ invalidation = NoInvalidation
    /\ provenance = NoProvenance
    /\ last = Outcome("none", JsNull)
    /\ probe = Origin("http", <<"localhost">>, "")
    /\ probeResult = "none"
    /\ HooksUnmounted

\* what every handler leaves behind, once last' says what it did
Handled ==
    /\ cachedPowerConfig' = last'.cache
    /\ loaded' =
          IF last'.op = "change" /\ last'.path = configPath THEN JsNull
          ELSE IF last'.called /\ ~last'.threw THEN last'.value
          ELSE loaded
    /\ invalidation' =
          IF last'.op = "change" /\ last'.path = configPath
          THEN [phase |-> "pending", dropped |-> last'.cacheBefore]
          ELSE IF last'.called /\ invalidation.phase = "pending"
          THEN [invalidation EXCEPT !.phase = "answered"]
          ELSE IF invalidation.phase = "pending" THEN invalidation
          ELSE NoInvalidation
    /\ provenance' =
          IF last'.called /\ last'.read /\ ~last'.threw
          THEN [file |-> file, read |-> TRUE, fresh |-> TRUE]
          ELSE IF last'.op = "change" /\ last'.path = configPath
          THEN [provenance EXCEPT !.fresh = FALSE]
          ELSE provenance

\* the http server emits "listening"; an exception that leaves the listener
\* is uncaught and ends the process
Listening ==
    /\ ~crashed
    /\ listenPending
    /\ \E server \in Servers :
          last' = IF plugin = "late"
                  THEN printLocalPlayUrl(cachedPowerConfig, file, server,
                                         isColorSupported)
                  ELSE printLocalPlayUrlEarly(cachedPowerConfig, file, server,
                                              isColorSupported)
    /\ Handled
    /\ crashed' = last'.escaped
    /\ listenPending' = FALSE
    /\ accepting' = TRUE
    /\ UNCHANGED <<plugin, httpServer, file, isColorSupported, probe,
                   probeResult>>
    /\ UNCHANGED <<lookupVars, accountVars, started, counterVars, formVars>>

\* a request to /__vite_powerapps_plugin__/power.config.json arrives
Request ==
    /\ ~crashed
    /\ accepting
    /\ \E req \in Requests :
          last' = IF plugin = "late"
                  THEN servePowerConfig(cachedPowerConfig, file, req,
                                        isColorSupported)
                  ELSE servePowerConfigEarly(cachedPowerConfig, file, req,
                                             isColorSupported)
    /\ Handled
    /\ UNCHANGED <<plugin, httpServer, file, listenPending, accepting,
                   crashed, isColorSupported, probe, probeResult>>
    /\ UNCHANGED <<lookupVars, accountVars, started, counterVars, formVars>>

\* the watcher emits "change"; only the later plugin listens
Change ==
    /\ ~crashed
    /\ plugin = "late"
    /\ \E changed \in ChangedPaths :
          last' = watchPowerConfig(cachedPowerConfig, changed, isColorSupported)
    /\ Handled
    /\ listenPending' = (httpServer /\ (listenPending \/ last'.restart))
    /\ UNCHANGED <<plugin, httpServer, file, accepting, crashed,
                   isColorSupported, probe, probeResult>>
    /\ UNCHANGED <<lookupVars, accountVars, started, counterVars, formVars>>

\* somebody writes, replaces, deletes or locks power.config.json
WriteFile ==
    /\ ~crashed
    /\ \E f \in Files : file' = f
    /\ last' = Outcome("write", cachedPowerConfig)
    /\ invalidation' = IF invalidation.phase = "pending" THEN invalidation
                       ELSE NoInvalidation
    /\ UNCHANGED <<plugin, httpServer, cachedPowerConfig, listenPending,
                   accepting, crashed, isColorSupported, loaded, provenance,
                   probe,
                   probeResult>>
    /\ UNCHANGED <<lookupVars, accountVars, started, counterVars, formVars>>

Next == Listening \/ Request \/ Change \/ WriteFile

Spec == Init /\ [][Next]_vars

(***************************************************************************)
(* The allow-list on its own: every origin of the study is put to          *)
(* isAllowed once.                                                         *)
(***************************************************************************)
InitOrigins ==
    /\ plugin = "late"
    /\ httpServer = TRUE
    /\ file = FileAbsent
    /\ cachedPowerConfig = JsNull
    /\ listenPending = TRUE
    /\ accepting = FALSE
    /\ crashed = FALSE
    /\ isColorSupported = FALSE
    /\ loaded = JsNull
    /\ invalidation = NoInvalidation
    /\ provenance = NoProvenance
    /\ last = Outcome("none", JsNull)
    /\ probe \in OriginsOver(Hosts(MaxLabels))
    /\ probeResult = "none"
    /\ HooksUnmounted

TestOrigin ==
    /\ probeResult = "none"
    /\ probeResult' = IF isAllowed(JsChars(Render(probe)))
                      THEN "allowed" ELSE "denied"
    /\ UNCHANGED <<plugin, httpServer, file, cachedPowerConfig, listenPending,
                   accepting, crashed, isColorSupported, loaded, invalidation,
                   provenance, last, probe>>
    /\ UNCHANGED <<lookupVars, accountVars, started, counterVars, formVars>>

NextOrigins == TestOrigin

SpecOrigins == InitOrigins /\ [][NextOrigins]_vars

(***************************************************************************)
(* useLookupResolver (samples/Dataverse): the names behind a contact's     *)
(* five lookup GUIDs.  Names are strings; a service's answer to get() is   *)
(* [kind, data], kind "resolve" or "reject".                               *)
(***************************************************************************)
MaxRuns == 2       \* effect runs of useLookupResolver in one behaviour
MaxLoads == 4      \* loadAccounts calls in one behaviour

\* the five lookups in the order of the Promise.all array
\*                                                     useLookupResolver.ts:117-170
LookupServices ==
    <<"SystemusersService", "TransactioncurrenciesService", "ContactsService",
      "AccountsService", "TeamsService">>

\* a ?? b on a name field
Nullish(v, default) == IF v.t \in {"null", "undefined"} THEN default ELSE v.s

\* white space and line terminators that String.prototype.trim removes
\* (the ones a TLA+ string can hold)
\* WhiteSpace and LineTerminator of String.prototype.trim: tab, line feed,
\* U+000B, form feed, carriage return, space, U+00A0, U+1680 and U+FEFF.
\* The rest of them (U+2000-U+200A, U+2028, U+2029, U+202F, U+205F, U+3000)
\* cannot be written in a string of this module
IsWhiteSpace(c) ==
    c \in {"\t", "\n", "", "\f", "\r", " ", " ", " ", "﻿"}

\* s.trimStart(), s.trimEnd(), s.trim()
TrimStart(s0) ==
    Let(s0, LAMBDA s :
    LET n == Len(s)
        skip == CHOOSE d \in 0..n :
                   /\ d = n \/ ~IsWhiteSpace(CharAt(s, d + 1))
                   /\ \A j \in 1..d : IsWhiteSpace(CharAt(s, j))
    IN SubSeq(s, skip + 1, n))

TrimEnd(s) ==
    LET n == Len(s)
        skip == CHOOSE d \in 0..n :
                   /\ d = n \/ ~IsWhiteSpace(CharAt(s, n - d))
                   /\ \A j \in 0..(d - 1) : IsWhiteSpace(CharAt(s, n - j))
    IN SubSeq(s, 1, n - skip)

Trim(s) == Let(TrimStart(s), LAMBDA t : TrimEnd(t))

\* `${firstname} ${lastname}`.trim()
TemplateTrim(firstname, lastname) == Trim(firstname \o " " \o lastname)

\* the nameExtractor given to fetchLookup for each service
nameExtractor(service, data) ==
    CASE service = "SystemusersService" ->
           Nullish(data.fullname, "Unknown User")
      [] service = "TransactioncurrenciesService" ->
           Nullish(data.currencyname, "Unknown Currency")
      [] service = "ContactsService" ->
           IF Truthy(data.fullname) THEN data.fullname.s
           ELSE LET t == TemplateTrim(Nullish(data.firstname, ""),
                                      Nullish(data.lastname, ""))
                IN IF t # "" THEN t ELSE "Unknown Contact"
      [] service = "AccountsService" ->
           Nullish(data.name, "Unknown Account")
      [] OTHER ->
           Nullish(data.name, "Unknown Team")

\* fetchLookup up to its await: '' at once without an id, else get() is
\* called and the lookup is pending                    useLookupResolver.ts:63-66
fetchLookupCall(id) ==
    [id |-> id, called |-> Truthy(id), settled |-> ~Truthy(id), name |-> ""]

\* a fetchLookup whose catch gives the empty name
fetchLookupBlankOnError(service, response) ==
    IF response.kind = "reject" THEN ""
    ELSE IF Truthy(response.data) THEN nameExtractor(service, response.data)
    ELSE "Unknown"

\* fetchLookup after its await                         useLookupResolver.ts:66-71
fetchLookup(service, response) ==
    IF response.kind = "reject" THEN "Error loading"
    ELSE IF Truthy(response.data) THEN nameExtractor(service, response.data)
    ELSE "Unknown"

\* Promise.all that is content with one settled promise
PromiseAllAny(slots) == \E i \in 1..Len(slots) : slots[i].settled

\* Promise.all resolves when every promise of the array has
\*                                                     useLookupResolver.ts:117
PromiseAll(slots) == \A i \in 1..Len(slots) : slots[i].settled

\* fetchLookupNames up to its await: the five fetchLookup calls
\*                                                     useLookupResolver.ts:111-170
fetchLookupNamesCall(c) ==
    [contact |-> c,
     slots   |-> <<fetchLookupCall(c._createdby_value),
                   fetchLookupCall(c._transactioncurrencyid_value),
                   fetchLookupCall(c._parentcontactid_value),
                   fetchLookupCall(c._msa_managingpartnerid_value),
                   fetchLookupCall(c._owningteam_value)>>]

\* the object given to setResolvedLookups              useLookupResolver.ts:172-178
fetchLookupNamesResult(run) ==
    [createdBy       |-> run.slots[1].name,
     currency        |-> run.slots[2].name,
     parentContact   |-> run.slots[3].name,
     managingPartner |-> run.slots[4].name,
     owningTeam      |-> run.slots[5].name]

\* ---- inputs ----
NoData == JsUndefined
Record(fullname, firstname, lastname, currencyname, name) ==
    [t |-> "record", fullname |-> fullname, firstname |-> firstname,
     lastname |-> lastname, currencyname |-> currencyname, name |-> name]

\* the display name stored for an id
NameOf(id) ==
    CASE id = "u1" -> "Ada Lovelace"
      [] id = "u2" -> "Grace Hopper"
      [] id = "c1" -> "US Dollar"
      [] id = "p1" -> "Alan Turing"
      [] id = "a1" -> "Contoso"
      [] OTHER     -> "Team One"

Found(id) ==
    [kind |-> "resolve",
     data |-> Record(JsString(NameOf(id)), JsUndefined, JsUndefined,
                     JsString(NameOf(id)), JsString(NameOf(id)))]
\* a first name with U+000B before it and no other name
Sparse ==
    [kind |-> "resolve",
     data |-> Record(JsNull, JsString("Ada"), JsUndefined, JsNull,
                     JsUndefined)]
Blank ==
    [kind |-> "resolve",
     data |-> Record(JsString(""), JsUndefined, JsNull, JsUndefined, JsNull)]
NotFound == [kind |-> "resolve", data |-> NoData]
Rejected == [kind |-> "reject", data |-> NoData]

\* how the services answer: one of five worlds
Worlds == {"found", "sparse", "blank", "missing", "failing"}

\* service.get(id, { select }) in world w
ServiceGet(w, service, id) ==
    CASE w = "sparse" -> Sparse
      [] w = "blank"  -> Blank
      [] w = "missing"
         /\ service \in {"SystemusersService", "ContactsService"} -> NotFound
      [] w = "failing"
         /\ service \in {"TransactioncurrenciesService", "TeamsService"}
           -> Rejected
      [] OTHER -> Found(id.s)

NewContact(createdby, currency, parent, partner, team) ==
    [t |-> "contact",
     _createdby_value             |-> createdby,
     _transactioncurrencyid_value |-> currency,
     _parentcontactid_value       |-> parent,
     _msa_managingpartnerid_value |-> partner,
     _owningteam_value            |-> team]

\* a contact with all five lookups, and one with two of them
ContactAll ==
    NewContact(JsString("u1"), JsString("c1"), JsString("p1"), JsString("a1"),
               JsString("t1"))
ContactSome ==
    NewContact(JsString("u2"), JsUndefined, JsString(""), JsString("a1"),
               JsUndefined)
Contacts == {JsNull, ContactAll, ContactSome}

\* ---- the hook ----
InitLookups ==
    /\ plugin = "late"
    /\ httpServer = TRUE
    /\ file = FileAbsent
    /\ cachedPowerConfig = JsNull
    /\ listenPending = TRUE
    /\ accepting = FALSE
    /\ crashed = FALSE
    /\ isColorSupported = FALSE
    /\ loaded = JsNull
    /\ invalidation = NoInvalidation
    /\ provenance = NoProvenance
    /\ last = Outcome("none", JsNull)
    /\ probe = Origin("http", <<"localhost">>, "")
    /\ probeResult = "none"
    /\ contact = JsNull
    /\ resolvedLookups = NoLookups
    /\ loading = FALSE
    /\ runs = <<>>
    /\ services \in Worlds
    /\ accounts = <<>>
    /\ accountsLoading = TRUE
    /\ loads = 0
    /\ lastLoad = NoLoad
    /\ started = 0
    /\ PageClosed
    /\ FormMounted

\* the parent renders the hook with another contact object (it may hold
\* the same ids as the one before; the dependency is compared by identity)
\* or with null after a contact: the effect runs
\*                                                     useLookupResolver.ts:91-187
SelectContact ==
    \E c \in Contacts :
        /\ c # JsNull \/ contact # JsNull
        /\ contact' = c
        /\ IF c = JsNull
           THEN /\ resolvedLookups' = NoLookups
                /\ UNCHANGED <<loading, runs, started>>
           ELSE /\ started < MaxRuns
                /\ started' = started + 1
                /\ loading' = TRUE
                /\ runs' = Append(runs, fetchLookupNamesCall(c))
                /\ UNCHANGED resolvedLookups
        /\ UNCHANGED <<services, pluginVars, accountVars, counterVars, formVars>>

\* one pending service.get settles and its fetchLookup returns
SettleFetch ==
    \E r \in 1..Len(runs) : \E i \in 1..5 :
        /\ ~runs[r].slots[i].settled
        /\ runs' = [runs EXCEPT ![r].slots[i] =
                      [@ EXCEPT
                         !.settled = TRUE,
                         !.name = fetchLookup(LookupServices[i],
                                     ServiceGet(services, LookupServices[i],
                                                runs[r].slots[i].id))]]
        /\ UNCHANGED <<contact, resolvedLookups, loading, services, started,
                       pluginVars, accountVars, counterVars, formVars>>

\* Promise.all has resolved: setResolvedLookups, then setLoading(false)
\*                                                     useLookupResolver.ts:172-183
FinishRun ==
    \E r \in 1..Len(runs) :
        /\ PromiseAll(runs[r].slots)
        /\ resolvedLookups' = fetchLookupNamesResult(runs[r])
        /\ loading' = FALSE
        /\ runs' = [k \in 1..(Len(runs) - 1) |->
                      IF k < r THEN runs[k] ELSE runs[k + 1]]
        /\ UNCHANGED <<contact, services, started, pluginVars, accountVars,
                       counterVars, formVars>>

NextLookups == SelectContact \/ SettleFetch \/ FinishRun

SpecLookups == InitLookups /\ [][NextLookups]_vars

(***************************************************************************)
(* useAccounts (samples/Dataverse): the accounts of the Managing Partner   *)
(* dropdown.  An account is its name; loads counts the loadAccounts calls  *)
(* waiting for AccountsService.getAll.                                     *)
(***************************************************************************)
\* a loadAccounts that empties the list when nothing came
loadAccountsResumeClears(list, response) ==
    [accounts |-> IF response.kind = "resolve" /\ Truthy(response.data)
                  THEN response.data.items ELSE <<>>,
     loading  |-> FALSE,
     logged   |-> response.kind = "reject",
     escaped  |-> FALSE]

\* loadAccounts after its await: setAccounts if there is data, the catch
\* logs, the finally sets loading to false             useAccounts.ts:47-54
loadAccountsResume(list, response) ==
    [accounts |-> IF response.kind = "resolve" /\ Truthy(response.data)
                  THEN response.data.items ELSE list,
     loading  |-> FALSE,
     logged   |-> response.kind = "reject",
     escaped  |-> FALSE]

\* what AccountsService.getAll may answer
AccountLists ==
    {<<>>, <<"Contoso">>, <<"Fabrikam">>, <<"Contoso", "Fabrikam">>}
GetAllResponses ==
    {[kind |-> "resolve", data |-> JsArray(l)] : l \in AccountLists}
    \cup {NotFound, Rejected}

InitAccounts ==
    /\ plugin = "late"
    /\ httpServer = TRUE
    /\ file = FileAbsent
    /\ cachedPowerConfig = JsNull
    /\ listenPending = TRUE
    /\ accepting = FALSE
    /\ crashed = FALSE
    /\ isColorSupported = FALSE
    /\ loaded = JsNull
    /\ invalidation = NoInvalidation
    /\ provenance = NoProvenance
    /\ last = Outcome("none", JsNull)
    /\ probe = Origin("http", <<"localhost">>, "")
    /\ probeResult = "none"
    /\ HooksUnmounted

\* loadAccounts up to its await: by the mount effect, or by a caller of the
\* function the hook returns                            useAccounts.ts:30-45
LoadAccounts ==
    /\ started < MaxLoads
    /\ started' = started + 1
    /\ accountsLoading' = TRUE
    /\ loads' = loads + 1
    /\ UNCHANGED <<accounts, lastLoad, lookupVars, pluginVars, counterVars,
                   formVars>>

\* getAll settles and one waiting loadAccounts runs to its end
SettleLoad ==
    /\ loads > 0
    /\ \E response \in GetAllResponses :
          LET after == loadAccountsResume(accounts, response) IN
          /\ accounts' = after.accounts
          /\ accountsLoading' = after.loading
          /\ lastLoad' =
               [response |-> IF response.kind = "reject" THEN "reject"
                             ELSE IF response.data = NoData THEN "nodata"
                             ELSE "data",
                escaped  |-> after.escaped,
                before   |-> accounts]
    /\ loads' = loads - 1
    /\ UNCHANGED <<started, lookupVars, pluginVars, counterVars, formVars>>

NextAccounts == LoadAccounts \/ SettleLoad

\* every getAll settles
SpecAccounts ==
    InitAccounts /\ [][NextAccounts]_vars /\ WF_vars(SettleLoad)

(***************************************************************************)
(* The page of the templates, as the Playwright tests drive it            *)
(* (tests/e2e/starter.spec.ts): a button that shows a count and a theme    *)
(* toggle.  The component itself is described by its tests only.           *)
(***************************************************************************)
MaxClicks == 60    \* clicks on the counter after one page load

\* String(n) of a natural number, one piece per digit
RECURSIVE ToDecimal(_)
ToDecimal(n) ==
    LET digits == <<"0", "1", "2", "3", "4", "5", "6", "7", "8", "9">>
    IN IF n < 10 THEN <<digits[n + 1]>>
       ELSE ToDecimal(n \div 10) \o <<digits[(n % 10) + 1]>>

\* a click handler that starts the count again
onClickCounterRestarts(c) == 1

\* the click handler of the counter button: one more
onClickCounter(c) == c + 1

\* the text of the counter button: count is {count}
CounterButtonText(c) == <<"count is ">> \o ToDecimal(c)

InitCounter ==
    /\ plugin = "late"
    /\ httpServer = TRUE
    /\ file = FileAbsent
    /\ cachedPowerConfig = JsNull
    /\ listenPending = TRUE
    /\ accepting = FALSE
    /\ crashed = FALSE
    /\ isColorSupported = FALSE
    /\ loaded = JsNull
    /\ invalidation = NoInvalidation
    /\ provenance = NoProvenance
    /\ last = Outcome("none", JsNull)
    /\ probe = Origin("http", <<"localhost">>, "")
    /\ probeResult = "none"
    /\ HooksUnmounted

\* page.goto('/'): the page is loaded and the component mounts
Goto ==
    /\ page' = "open"
    /\ count' = 0
    /\ clicks' = 0
    /\ UNCHANGED <<theme, pluginVars, lookupVars, accountVars, started,
                   formVars>>

\* counterButton.click()
ClickCounter ==
    /\ page = "open"
    /\ clicks < MaxClicks
    /\ count' = onClickCounter(count)
    /\ clicks' = clicks + 1
    /\ UNCHANGED <<page, theme, pluginVars, lookupVars, accountVars, started,
                   formVars>>

\* a click on the theme toggle
ToggleTheme ==
    /\ page = "open"
    /\ theme' = IF theme = "light" THEN "dark" ELSE "light"
    /\ UNCHANGED <<page, count, clicks, pluginVars, lookupVars, accountVars,
                   started, formVars>>

NextCounter == Goto \/ ClickCounter \/ ToggleTheme

SpecCounter == InitCounter /\ [][NextCounter]_vars

(***************************************************************************)
(* ContactForm (samples/Dataverse): a controlled form over seven string    *)
(* fields with an "Unsaved changes" flag.  onSubmit, onCancel and the      *)
(* props belong to the parent; submits holds the form data of the onSubmit *)
(* calls whose promise has not settled.                                    *)
(***************************************************************************)
MaxSubmits == 2    \* onSubmit calls pending at one time

\* v || ''
OrEmpty(v) == IF Truthy(v) THEN v.s ELSE ""

\* the object the effect gives to setFormData for a contact
\*                                                     ContactForm.tsx:103-111
FormOf(c) ==
    [firstname         |-> OrEmpty(c.firstname),
     lastname          |-> OrEmpty(c.lastname),
     emailaddress1     |-> OrEmpty(c.emailaddress1),
     telephone1        |-> OrEmpty(c.telephone1),
     mobilephone       |-> OrEmpty(c.mobilephone),
     jobtitle          |-> OrEmpty(c.jobtitle),
     managingpartnerid |-> OrEmpty(c._msa_managingpartnerid_value)]

\* the effect on [selectedContact, isCreating]: what it sets, or that it
\* sets nothing                                        ContactForm.tsx:101-126
formEffect(sel, creating) ==
    IF Truthy(sel) THEN [sets |-> TRUE, formData |-> FormOf(sel)]
    ELSE IF creating THEN [sets |-> TRUE, formData |-> BlankForm]
    ELSE [sets |-> FALSE, formData |-> BlankForm]

\* handleChange                                        ContactForm.tsx:136-139
handleChange(data, field, value) == [data EXCEPT ![field] = value]

\* handleSubmit after its await: the flag             ContactForm.tsx:130-133
handleSubmitResume(flag, success) == IF success = "true" THEN FALSE ELSE flag

\* ---- inputs ----
FormContact(first, lastn, email, job, partner) ==
    [t |-> "contact", firstname |-> first, lastname |-> lastn,
     emailaddress1 |-> email, telephone1 |-> JsUndefined,
     mobilephone |-> JsNull, jobtitle |-> job,
     _createdby_value |-> JsUndefined,
     _transactioncurrencyid_value |-> JsUndefined,
     _parentcontactid_value |-> JsNull,
     _msa_managingpartnerid_value |-> partner,
     _owningteam_value |-> JsUndefined]
FormContacts ==
    {FormContact(JsString("Ada"), JsString("Lovelace"),
                 JsString("ada@example.com"), JsString("Engineer"),
                 JsString("a1")),
     FormContact(JsString("Grace"), JsUndefined, JsNull, JsString(""),
                 JsUndefined)}
FormEdits == {<<"firstname", "Eve">>, <<"jobtitle", "">>}
SubmitOutcomes == {"true", "false", "reject"}

InitForm ==
    /\ plugin = "late"
    /\ httpServer = TRUE
    /\ file = FileAbsent
    /\ cachedPowerConfig = JsNull
    /\ listenPending = TRUE
    /\ accepting = FALSE
    /\ crashed = FALSE
    /\ isColorSupported = FALSE
    /\ loaded = JsNull
    /\ invalidation = NoInvalidation
    /\ provenance = NoProvenance
    /\ last = Outcome("none", JsNull)
    /\ probe = Origin("http", <<"localhost">>, "")
    /\ probeResult = "none"
    /\ HooksUnmounted

\* The parent renders the form.  React compares the dependencies of an
\* effect with Object.is: `another` says that the selectedContact of this
\* render is another object than that of the render before, which it is
\* when the two differ and may be when they hold the same fields; null is
\* null.  The render calls useLookupResolver(selectedContact), whose effect
\* depends on the contact, and then the form's effect runs, which depends
\* on the contact and on isCreating.       ContactForm.tsx:84, 101-126
RenderForm ==
    \E sel \in FormContacts \cup {JsNull} : \E creating \in BOOLEAN :
    \E another \in BOOLEAN :
        /\ sel # selectedContact => another
        /\ sel = JsNull /\ selectedContact = JsNull => ~another
        /\ another \/ creating # isCreating
        /\ selectedContact' = sel
        /\ isCreating' = creating
        /\ contact' = sel
        /\ IF ~another
           THEN UNCHANGED <<resolvedLookups, loading, runs, started>>
           ELSE IF sel = JsNull
           THEN /\ resolvedLookups' = NoLookups
                /\ UNCHANGED <<loading, runs, started>>
           ELSE /\ started < MaxRuns
                /\ started' = started + 1
                /\ loading' = TRUE
                /\ runs' = Append(runs, fetchLookupNamesCall(sel))
                /\ UNCHANGED resolvedLookups
        /\ LET effect == formEffect(sel, creating) IN
           /\ formData' = IF effect.sets THEN effect.formData ELSE formData
           /\ hasUnsavedChanges' =
                IF effect.sets THEN FALSE ELSE hasUnsavedChanges
           /\ clean' = [clean EXCEPT
                          !.loaded = IF effect.sets THEN effect.formData
                                     ELSE @,
                          !.cancelled = IF effect.sets THEN FALSE ELSE @,
                          !.by = "effect"]
        /\ UNCHANGED <<submits, services, pluginVars, accountVars,
                       counterVars>>

\* the user types into a field
ChangeField ==
    \E edit \in FormEdits :
        /\ formData[edit[1]] # edit[2]
        /\ formData' = handleChange(formData, edit[1], edit[2])
        /\ hasUnsavedChanges' = TRUE
        /\ clean' = [clean EXCEPT !.by = "change", !.cancelled = FALSE]
        /\ UNCHANGED <<selectedContact, isCreating, submits, pluginVars,
                       lookupVars, accountVars, started, counterVars>>

\* handleSubmit up to its await: onSubmit(formData)    ContactForm.tsx:128-130
Submit ==
    /\ Len(submits) < MaxSubmits
    /\ submits' = Append(submits, formData)
    /\ clean' = [clean EXCEPT !.by = "submit"]
    /\ UNCHANGED <<selectedContact, isCreating, formData, hasUnsavedChanges,
                   pluginVars, lookupVars, accountVars, started, counterVars>>

\* the promise of one pending onSubmit settles
SettleSubmit ==
    \E k \in 1..Len(submits) : \E success \in SubmitOutcomes :
        /\ hasUnsavedChanges' = handleSubmitResume(hasUnsavedChanges, success)
        /\ submits' = [j \in 1..(Len(submits) - 1) |->
                         IF j < k THEN submits[j] ELSE submits[j + 1]]
        /\ clean' = [clean EXCEPT
                       !.submitted = IF success = "true" THEN submits[k]
                                     ELSE @,
                       !.by = success]
        /\ UNCHANGED <<selectedContact, isCreating, formData, pluginVars,
                       lookupVars, accountVars, started, counterVars>>

\* handleCancel                                        ContactForm.tsx:141-144
Cancel ==
    /\ hasUnsavedChanges' = FALSE
    /\ clean' = [clean EXCEPT !.by = "cancel", !.cancelled = TRUE]
    /\ UNCHANGED <<selectedContact, isCreating, formData, submits,
                   pluginVars, lookupVars, accountVars, started, counterVars>>

NextForm ==
    \/ RenderForm \/ ChangeField \/ Submit \/ SettleSubmit \/ Cancel
    \/ SettleFetch \/ FinishRun

SpecForm == InitForm /\ [][NextForm]_vars

(***************************************************************************)
(* Properties.  What the inputs are expected to give is written down here  *)
(* independently of the code above.                                        *)
(***************************************************************************)
\* texts that are not JSON
MalformedTexts == {TxtGarbage, TxtTruncated, TxtTrailingComma}
\* JSON without an environmentId, or with one that is no string
InvalidTexts   == {TxtNull, TxtString, TxtArray, TxtNoId, TxtNumericId}
\* JSON objects with a non-empty string environmentId
ValidTexts     == {TxtValid, TxtValidSpaced, TxtValidFull, TxtValidOther,
                   TxtDuplicateId, TxtValidIndexed}

\* r is an object whose environmentId is a string
HasStringId(r) ==
    /\ r.t = "object"
    /\ \E i \in 1..Len(r.members) :
          /\ r.members[i].key = "environmentId"
          /\ r.members[i].val.t = "string"

\* r is an object whose environmentId is a non-empty string
HasNonEmptyId(r) ==
    /\ r.t = "object"
    /\ \E i \in 1..Len(r.members) :
          /\ r.members[i].key = "environmentId"
          /\ r.members[i].val.t = "string"
          /\ r.members[i].val.s # ""

\* the last step called getPowerConfig and the call read the file; the file
\* has not been touched since (a write is a step of its own)
ReadJustNow == last.called /\ last.read

\* the last step called getPowerConfig and it returned a record
ReturnedJustNow == last.called /\ ~last.threw

\* C1 (as claimed): every record getPowerConfig returns and every record in
\* the cache has a non-empty string environmentId; every other file content
\* (an empty-string environmentId included) makes the load fail, and nothing
\* is returned or cached.
C1_NonEmptyIdOrFailure ==
    /\ cachedPowerConfig # JsNull => HasNonEmptyId(cachedPowerConfig)
    /\ ReturnedJustNow => HasNonEmptyId(last.value)
    /\ (ReadJustNow /\ (file.code # "OK" \/ file.text \notin ValidTexts))
          => (last.threw /\ cachedPowerConfig = JsNull)

\* C1 (amended): every record getPowerConfig returns and every record in the
\* cache is a JSON object whose environmentId is a string, the empty string
\* included; for every other file content the load fails and nothing is
\* returned or cached.
C1_StringIdOrFailure ==
    /\ cachedPowerConfig # JsNull => HasStringId(cachedPowerConfig)
    /\ ReturnedJustNow => HasStringId(last.value)
    /\ (ReadJustNow
        /\ (file.code # "OK" \/ file.text \notin ValidTexts \cup {TxtEmptyId}))
          => (last.threw /\ last.value = JsUndefined
              /\ cachedPowerConfig = JsNull)
    /\ (ReadJustNow /\ file.code = "OK"
        /\ file.text \in ValidTexts \cup {TxtEmptyId})
          => (~last.threw /\ cachedPowerConfig = last.value)

\* a file whose environmentId is "" has been loaded, returned and cached
C1_Witness ==
    /\ ReadJustNow
    /\ file = FileWith(TxtEmptyId)
    /\ ~last.threw
    /\ cachedPowerConfig = last.value
    /\ HasStringId(last.value)
    /\ ~HasNonEmptyId(last.value)

\* the request origins the allow-list is expected to let through
ExpectedAllowed ==
    {JsChars(Render(Origin("http", <<"localhost">>, ":5173"))),
     JsChars(Render(Origin("https", <<"apps", "powerapps", "com">>, "")))}

\* the response body holds the serialized record
BodyHoldsRecord == last.op = "request" /\ last.res.ended /\ last.res.body # <<>>

\* C2 (as claimed): the record is put in a response body only for requests
\* whose Origin matches the allow-list.
C2_RecordOnlyForAllowedOrigin ==
    BodyHoldsRecord => last.req.origin \in ExpectedAllowed

\* C2 (amended): the record is put in the response body of every request
\* that is not OPTIONS and whose load succeeds, whatever its Origin; what is
\* kept for the origins of the allow-list is the Access-Control-Allow-Origin
\* header, so a response to a non-matching or absent Origin holds the record
\* but never that header.
C2_RecordReadableOnlyForAllowedOrigin ==
    /\ (last.op = "request" /\ last.req.method # "OPTIONS" /\ ReturnedJustNow)
          => (BodyHoldsRecord /\ last.res.body = JSONStringify(last.value))
    /\ BodyHoldsRecord =>
          IF last.req.origin \in ExpectedAllowed
          THEN last.res.acao = last.req.origin
          ELSE last.res.acao = JsUndefined

\* a request without an allowed Origin got the record, without the header
C2_Witness ==
    /\ BodyHoldsRecord
    /\ last.req.origin = JsChars(Render(Origin("https", <<"evil", "com">>, "")))
    /\ HasStringId(last.value)
    /\ last.res.acao = JsUndefined

\* What the patterns are meant to let through, read off the parts of an
\* origin: a loopback host on http or https with an optional numeric port,
\* or the hosted player on https without a port.
IsLoopbackHost(host) ==
    \/ host[Len(host)] = "localhost"
    \/ host = <<"127.0.0.1">>
    \/ host = <<"[::1]">>

IsPlayerHost(host) ==
    /\ Len(host) >= 3
    /\ host[1] = "apps"
    /\ host[Len(host) - 1] = "powerapps"
    /\ host[Len(host)] = "com"

Describes(o) ==
    /\ o.tail = ""
    /\ \/ /\ o.scheme \in {"http", "https"}
          /\ IsLoopbackHost(o.host)
          /\ o.port \in {"", ":5173"}
       \/ /\ o.scheme = "https"
          /\ IsPlayerHost(o.host)
          /\ o.port = ""

\* C3: isAllowed is true exactly for the origins the fixed patterns describe
\* (loopback hosts on http/https with an optional port, apps.powerapps.com
\* and apps.<labels>.powerapps.com on https) and false for every other
\* origin of the study.
C3_AllowListExact ==
    probeResult # "none" => (probeResult = "allowed" <=> Describes(probe))

\* an origin with labels between apps and powerapps.com was allowed
C3_Witness ==
    /\ probeResult = "allowed"
    /\ probe = Origin("https", <<"apps", "evil", "powerapps", "com">>, "")

\* C4: once a load has succeeded and no invalidation has come since, every
\* further getPowerConfig call returns the record of that load without
\* reading the file, whatever the file has become.
C4_CachedUntilInvalidated ==
    [][(loaded # JsNull /\ last'.called)
          => (/\ ~last'.read
              /\ ~last'.threw
              /\ last'.value = loaded
              /\ cachedPowerConfig' = loaded)]_vars

\* a call was answered from the cache although the file is gone
C4_Witness ==
    /\ last.called
    /\ ~last.read
    /\ ~last.threw
    /\ last.value = loaded
    /\ HasStringId(last.value)
    /\ file = FileAbsent

\* C5: the first getPowerConfig call after an invalidation reads the file
\* again, also when the file still gives the record that was dropped.
C5_RereadAfterInvalidation ==
    invalidation.phase = "answered" => (last.called /\ last.read)

\* the re-read after an invalidation gave the very record that was dropped
C5_Witness ==
    /\ invalidation.phase = "answered"
    /\ last.called
    /\ last.read
    /\ ~last.threw
    /\ invalidation.dropped # JsNull
    /\ last.value = invalidation.dropped

\* The failure a thrown error stands for: the late loader words it in the
\* message, the early loader rethrows what fs and JSON.parse threw.
ErrorKind(e) ==
    IF e.message = MsgMissingFile \/ e.code = "ENOENT" THEN "ConfigMissing"
    ELSE IF e.message = MsgInvalidJson \/ e.class = "SyntaxError"
    THEN "ConfigMalformed"
    ELSE IF e.message \in {MsgInvalidStructure, MsgInvalidStructureEarly}
    THEN "ConfigInvalid"
    ELSE "Other"

\* getPowerConfig was just called on an empty cache
CalledOnEmptyCache == last.called /\ last.cacheBefore = JsNull

\* C6: with an empty cache getPowerConfig fails with ConfigMissing when the
\* file does not exist, ConfigMalformed when it is not JSON and
\* ConfigInvalid when the JSON lacks a string environmentId; in each case
\* no record is returned and nothing is cached.
C6_FailureKinds ==
    /\ (CalledOnEmptyCache /\ file = FileAbsent)
          => (last.threw /\ ErrorKind(last.error) = "ConfigMissing")
    /\ (CalledOnEmptyCache /\ file.code = "OK" /\ file.text \in MalformedTexts)
          => (last.threw /\ ErrorKind(last.error) = "ConfigMalformed")
    /\ (CalledOnEmptyCache /\ file.code = "OK" /\ file.text \in InvalidTexts)
          => (last.threw /\ ErrorKind(last.error) = "ConfigInvalid")
    /\ (CalledOnEmptyCache /\ last.threw)
          => (last.read /\ last.value = JsUndefined
              /\ cachedPowerConfig = JsNull)

\* the late loader met a missing file and reported it as such
C6_Witness ==
    /\ plugin = "late"
    /\ CalledOnEmptyCache
    /\ file = FileAbsent
    /\ last.threw
    /\ last.error = NewError(MsgMissingFile)
    /\ cachedPowerConfig = JsNull

\* the logger was given an error
LoggedError == \E i \in 1..Len(last.logs) : last.logs[i].level = "error"

\* a request that is not OPTIONS whose load failed
FailedRequest ==
    last.op = "request" /\ last.req.method # "OPTIONS" /\ last.threw

\* C7: when the load fails during a request that is not OPTIONS, the
\* response is ended with an empty body, an error is logged, and no
\* exception leaves the handler.
C7_FailedRequestEndsEmpty ==
    FailedRequest =>
        /\ last.res.ended
        /\ last.res.body = <<>>
        /\ LoggedError
        /\ ~last.escaped

\* the early endpoint let the loader's exception out, the response open
C7_Escaped ==
    /\ plugin = "early"
    /\ FailedRequest
    /\ file = FileAbsent
    /\ last.escaped
    /\ ~last.res.ended

\* the late endpoint answers a failed load with an empty body
C7_HandledLate ==
    (plugin = "late" /\ FailedRequest) =>
        /\ last.res.ended
        /\ last.res.body = <<>>
        /\ LoggedError
        /\ ~last.escaped

\* the server held something a base URL can be made of
BaseUrlDerivable(server) ==
    \/ /\ server.resolvedUrls # JsNull
       /\ server.resolvedUrls.local # <<>>
    \/ server.address # JsNull

\* C8: the listening notifier prints the play URL exactly when the load
\* succeeds, environmentId is non-empty and a base URL can be derived; in
\* every other case it logs an error, prints no URL, and no exception
\* leaves it.
C8_PrintsOrLogs ==
    last.op = "listening" =>
        IF /\ ReturnedJustNow
           /\ HasNonEmptyId(last.value)
           /\ BaseUrlDerivable(last.server)
        THEN last.printed # JsNull /\ ~LoggedError /\ ~last.escaped
        ELSE last.printed = JsNull /\ LoggedError /\ ~last.escaped

\* the early notifier let the loader's exception out and the process is down
C8_Escaped ==
    /\ plugin = "early"
    /\ last.op = "listening"
    /\ last.threw
    /\ last.escaped
    /\ last.printed = JsNull
    /\ crashed

\* the late notifier prints or logs, and nothing leaves it
C8_HandledLate ==
    (plugin = "late" /\ last.op = "listening") =>
        IF /\ ReturnedJustNow
           /\ HasNonEmptyId(last.value)
           /\ BaseUrlDerivable(last.server)
        THEN last.printed # JsNull /\ ~LoggedError /\ ~last.escaped
        ELSE last.printed = JsNull /\ LoggedError /\ ~last.escaped

\* C9: a change event whose path is the configuration file's path empties
\* the cache and asks the server to restart.
C9_ChangeInvalidatesAndRestarts ==
    (last.op = "change" /\ last.path = configPath) =>
        /\ cachedPowerConfig = JsNull
        /\ last.restart
        /\ (httpServer => listenPending)

\* a cached record was dropped by a change of the configuration file
C9_Witness ==
    /\ last.op = "change"
    /\ last.path = configPath
    /\ HasStringId(last.cacheBefore)
    /\ cachedPowerConfig = JsNull
    /\ last.restart

\* C10: an OPTIONS request from an allowed origin is answered 204 with an
\* empty body and Access-Control-Allow-Methods "GET, OPTIONS", and the
\* configuration is not loaded.
C10_PreflightAllowed ==
    (last.op = "request" /\ last.req.method = "OPTIONS"
     /\ last.req.origin \in ExpectedAllowed) =>
        /\ last.res.statusCode = 204
        /\ last.res.ended
        /\ last.res.body = <<>>
        /\ last.res.acam = JsString("GET, OPTIONS")
        /\ last.res.acao = last.req.origin
        /\ ~last.called
        /\ ~last.read
        /\ cachedPowerConfig = last.cacheBefore

\* a preflight from the hosted player was answered while nothing was cached
\* and the file could not have been loaded
C10_Witness ==
    /\ last.op = "request"
    /\ last.req.method = "OPTIONS"
    /\ last.req.origin
         = JsChars(Render(Origin("https", <<"apps", "powerapps", "com">>, "")))
    /\ last.res.statusCode = 204
    /\ last.res.acam = JsString("GET, OPTIONS")
    /\ cachedPowerConfig = JsNull
    /\ file = FileAbsent

\* the request just handled was answered with the no-content status
NoContent == last.res.statusCode = 204 /\ last.res.ended /\ last.res.body = <<>>

\* C11 (as claimed): a request gets the no-content pre-flight response only
\* when its method is OPTIONS and its origin is allowed; every other
\* request, an OPTIONS from an origin that is not allowed included, causes
\* a load attempt and is answered from its result.
C11_PreflightOnlyForAllowed ==
    last.op = "request" =>
        IF last.req.method = "OPTIONS" /\ last.req.origin \in ExpectedAllowed
        THEN NoContent /\ ~last.called
        ELSE last.res.statusCode # 204 /\ last.called

\* C11 (amended): a request gets the no-content response exactly when its
\* method is OPTIONS, whatever its origin, and then no load is attempted;
\* every request of another method causes a load attempt and is answered
\* from its result.  The origin decides only whether the pre-flight
\* response carries the CORS headers.
C11_PreflightForAnyOrigin ==
    last.op = "request" =>
        IF last.req.method = "OPTIONS"
        THEN /\ NoContent
             /\ ~last.called
             /\ cachedPowerConfig = last.cacheBefore
             /\ (last.res.acao # JsUndefined
                   <=> last.req.origin \in ExpectedAllowed)
        ELSE /\ last.res.statusCode = 200
             /\ last.called
             /\ (last.res.ended /\ ~last.threw
                   => last.res.body = JSONStringify(last.value))
             /\ (last.res.ended /\ last.threw => last.res.body = <<>>)

\* a pre-flight from an origin that is not allowed was answered 204 without
\* a load and without CORS headers
C11_Witness ==
    /\ last.op = "request"
    /\ last.req.method = "OPTIONS"
    /\ last.req.origin = JsChars(Render(Origin("https", <<"evil", "com">>, "")))
    /\ NoContent
    /\ ~last.called
    /\ last.res.acao = JsUndefined

\* C12: for every request, whatever its method and whether the load
\* succeeds or fails, the response carries Access-Control-Allow-Origin,
\* Access-Control-Allow-Methods and Access-Control-Allow-Headers if and only
\* if the request's Origin matches the allow-list.
C12_CorsHeadersIffAllowed ==
    last.op = "request" =>
        IF last.req.origin \in ExpectedAllowed
        THEN /\ last.res.acao = last.req.origin
             /\ last.res.acam = JsString("GET, OPTIONS")
             /\ last.res.acah = JsString("*")
        ELSE /\ last.res.acao = JsUndefined
             /\ last.res.acam = JsUndefined
             /\ last.res.acah = JsUndefined

\* a request from an allowed origin whose load failed still got the headers
C12_Witness ==
    /\ last.op = "request"
    /\ last.req.method = "GET"
    /\ last.threw
    /\ last.req.origin = JsChars(Render(Origin("http", <<"localhost">>, ":5173")))
    /\ last.res.acao = last.req.origin
    /\ last.res.acam = JsString("GET, OPTIONS")
    /\ last.res.acah = JsString("*")

\* What JSON.stringify(JSON.parse(text)) is expected to give for the texts
\* that load: white space goes, members whose key is an array index come
\* first and the others keep their order, of two members with one key the
\* first keeps its place with the second's value, and a number is written
\* in its shortest form.
Serialized(text) ==
    CASE text = TxtValidSpaced  -> TxtValid
      [] text = TxtDuplicateId  -> TxtValid
      [] text = TxtValidIndexed ->
           TObject(TMember("1", <<TString("x")>>) \o TComma
                   \o TMember("environmentId", <<TString("abc-123")>>)
                   \o TComma \o TMember("n", <<TNumber("1")>>))
      [] OTHER                  -> text

\* a request that is not OPTIONS whose load succeeded
ServedRequest ==
    last.op = "request" /\ last.req.method # "OPTIONS" /\ ReturnedJustNow

\* C13: for a request that is not a pre-flight and whose load succeeds, the
\* body is the JSON serialization of exactly the record getPowerConfig
\* returned, every field of the file passed through, with Content-Type
\* application/json and Cache-Control no-store.
C13_BodyIsSerializedRecord ==
    ServedRequest =>
        /\ last.res.ended
        /\ last.res.statusCode = 200
        /\ last.res.body = JSONStringify(last.value)
        /\ (last.read => last.res.body = Serialized(file.text))
        /\ last.res.contentType = JsString("application/json; charset=utf-8")
        /\ last.res.cacheControl = JsString("no-store")

\* a file with three members was read and sent with all three
C13_Witness ==
    /\ ServedRequest
    /\ last.read
    /\ file = FileWith(TxtValidFull)
    /\ last.res.body = TxtValidFull
    /\ last.res.cacheControl = JsString("no-store")

\* the escape sequences picocolors wraps text in
EscapeCodes ==
    {ESC \o "[31m", ESC \o "[33m", ESC \o "[35m", ESC \o "[95m",
     ESC \o "[39m", ESC \o "[0m"}

\* the escape sequence that starts at character i of s, if any
EscapeAt(s, i) ==
    {c \in EscapeCodes :
        i + Len(c) - 1 <= Len(s) /\ SubSeq(s, i, i + Len(c) - 1) = c}

\* a string without the escape sequences in it
RECURSIVE Unescaped(_)
Unescaped(s) ==
    LET n == Len(s)
        d == CHOOSE d \in 1..(n + 1) :
                /\ d = n + 1 \/ EscapeAt(s, d) # {}
                /\ \A j \in 1..(d - 1) : EscapeAt(s, j) = {}
    IN IF d = n + 1 THEN s
       ELSE SubSeq(s, 1, d - 1)
            \o Unescaped(SubSeq(s, d + Len(CHOOSE c \in EscapeAt(s, d) : TRUE),
                                n))

\* what a terminal shows of a text: the escape sequences are not displayed
Visible(pieces) ==
    SelectSeq([i \in 1..Len(pieces) |-> Unescaped(pieces[i])],
              LAMBDA p : p # "")

\* the connection URL as the claim composes it from E and B
ConnectionUrl(E, B) ==
    <<"https://apps.powerapps.com/play/e/", E, "/a/local", "?_localAppUrl=">>
    \o B
    \o <<"&_localConnectionUrl=">>
    \o B
    \o <<"__vite_powerapps_plugin__/power.config.json">>

\* the notifier has just printed a URL
PrintedJustNow == last.op = "listening" /\ last.printed # JsNull

\* C14 (as claimed): the printed connection URL is the concatenation of
\* 'https://apps.powerapps.com/play/e/', E, '/a/local', '?_localAppUrl=', B,
\* '&_localConnectionUrl=', B and
\* '__vite_powerapps_plugin__/power.config.json'.
C14_UrlIsConcatenation ==
    PrintedJustNow =>
        last.printed.pieces
          = ConnectionUrl(GetKey(last.value, "environmentId").s,
                          getLocalBaseUrl(last.server).pieces)

\* C14 (amended): the printed connection URL shows as that concatenation;
\* the string given to the logger is exactly the concatenation only when
\* colours are off.  With colours on every part is wrapped in its own pair
\* of ANSI escape sequences, and a colour-closing sequence that E holds
\* after its fifth character is replaced by the opening one, so the string
\* holds what the parts show in the stated order but not contiguously.
C14_UrlShowsAsConcatenation ==
    PrintedJustNow =>
        LET url == ConnectionUrl(GetKey(last.value, "environmentId").s,
                                 getLocalBaseUrl(last.server).pieces)
        IN /\ Visible(last.printed.pieces) = Visible(url)
           /\ (~isColorSupported => last.printed.pieces = url)
           /\ (isColorSupported => last.printed.pieces # url)
           /\ last.logs[Len(last.logs)].level = "info"
           /\ Visible(last.logs[Len(last.logs)].text)
                = <<"  ", "->", "  Local Play:   ">> \o Visible(url)

\* abc-123 at http://localhost:5173/ was printed in colour
C14_Witness ==
    /\ PrintedJustNow
    /\ isColorSupported
    /\ Visible(last.printed.pieces)
         = <<"https://apps.powerapps.com/play/e/", "abc-123", "/a/local",
             "?_localAppUrl=", "http://localhost:5173/",
             "&_localConnectionUrl=", "http://localhost:5173/",
             "__vite_powerapps_plugin__/power.config.json">>
    /\ last.printed.pieces[1] = ESC \o "[35m"

\* the notifier has just come to the point where it needs the base URL
BaseUrlNeeded ==
    last.op = "listening" /\ ReturnedJustNow /\ HasNonEmptyId(last.value)

\* the server's resolved local URL list has a first entry
HasResolvedLocal(server) ==
    server.resolvedUrls # JsNull /\ server.resolvedUrls.local # <<>>

\* '<scheme>://<host>:<port>/' of a socket address, as the claim words it
DerivedUrl(server) ==
    <<IF server.https = JsUndefined THEN "http" ELSE "https", "://",
      IF server.address.address = "::1" THEN "localhost"
      ELSE server.address.address,
      ":", server.address.port, "/">>

\* the base URL the notifier printed as _localAppUrl, <<>> if it printed none
PrintedBase ==
    IF last.printed = JsNull THEN <<>>
    ELSE LET v == Visible(last.printed.pieces)
             n == (Len(v) - 6) \div 2
         IN SubSeq(v, 5, 4 + n)

\* C15 (as claimed): the base URL is the first entry of the resolved local
\* URL list whenever the list has one; otherwise it is derived from the
\* listening socket address as '<scheme>://<host>:<port>/', '::1' replaced
\* by 'localhost', https exactly when TLS is configured.
C15_BaseUrlListElseDerived ==
    BaseUrlNeeded =>
        IF HasResolvedLocal(last.server)
        THEN PrintedBase = last.server.resolvedUrls.local[1].pieces
        ELSE last.server.address # JsNull =>
                /\ last.server.address.t = "address"
                /\ PrintedBase = DerivedUrl(last.server)

\* C15 (amended): the base URL is the first entry of the resolved local URL
\* list whenever the list has one.  Otherwise it depends on what the socket
\* address is: an address object gives '<scheme>://<host>:<port>/' with
\* '::1' replaced by 'localhost' and https exactly when TLS is configured; a
\* string address (a pipe or socket path) is used as the base URL
\* unchanged; no address gives no base URL, and no URL is printed.
C15_BaseUrlByAddressKind ==
    BaseUrlNeeded =>
        IF HasResolvedLocal(last.server)
        THEN PrintedBase = last.server.resolvedUrls.local[1].pieces
        ELSE IF last.server.address = JsNull
        THEN last.printed = JsNull /\ LoggedError
        ELSE IF last.server.address.t = "address"
        THEN PrintedBase = DerivedUrl(last.server)
        ELSE PrintedBase = last.server.address.pieces

\* without a resolved list, [::1]:5173 under TLS gave https://localhost:5173/
C15_Witness ==
    /\ BaseUrlNeeded
    /\ last.server.resolvedUrls = JsNull
    /\ last.server.address.t = "address"
    /\ last.server.address.address = "::1"
    /\ last.server.https # JsUndefined
    /\ PrintedBase = <<"https", "://", "localhost", ":", "5173", "/">>

\* C16: whatever the order of requests, startup notifications, file
\* changes and writes to the file, every record getPowerConfig returns is
\* the content of one single read of the file, and once an invalidation
\* has been handled no later call returns a record read before it.
C16_OneReadNeverStale ==
    ReturnedJustNow =>
        /\ provenance.read
        /\ provenance.file.code = "OK"
        /\ last.value = JSONParse(provenance.file.text).val
        /\ JSONStringify(last.value) = Serialized(provenance.file.text)
        /\ provenance.fresh
        /\ (last.read => provenance.file = file)

\* after an invalidation, with the file replaced, a call returned the
\* record of the new file and not the one dropped
C16_Witness ==
    /\ ReturnedJustNow
    /\ invalidation.phase = "answered"
    /\ HasStringId(invalidation.dropped)
    /\ last.value # invalidation.dropped
    /\ file = FileWith(TxtValidOther)
    /\ JSONStringify(last.value) = TxtValidOther

\* C17: the cached record is never modified in place.  The cache changes
\* only from empty to a record, by a successful load, and from a record to
\* empty, by an invalidation; serving a request or printing the URL leaves
\* a cached record as it is, and a record in the cache is never replaced
\* directly by another.
C17_CacheOnlyFilledOrEmptied ==
    [][cachedPowerConfig' # cachedPowerConfig =>
          \/ /\ cachedPowerConfig = JsNull
             /\ last'.called /\ last'.read /\ ~last'.threw
             /\ cachedPowerConfig' = last'.value
             /\ cachedPowerConfig' = JSONParse(file.text).val
          \/ /\ cachedPowerConfig # JsNull
             /\ cachedPowerConfig' = JsNull
             /\ last'.op = "change"
             /\ last'.path = configPath]_vars

\* a record cached, served from the cache with another file on disk, and
\* still the same record afterwards
C17_Witness ==
    /\ last.op = "request"
    /\ last.called
    /\ ~last.read
    /\ HasStringId(last.cacheBefore)
    /\ cachedPowerConfig = last.cacheBefore
    /\ file = FileWith(TxtValidOther)
    /\ JSONStringify(cachedPowerConfig) = TxtValid

\* The names a contact is expected to show once resolved, written out per
\* world: a name found, 'Unknown ...' for a record without a name,
\* 'Unknown' for a result without data, 'Error loading' for a rejected
\* get(), '' for a lookup the contact does not have.
ExpectedAll(w) ==
    CASE w = "found" ->
           [createdBy |-> "Ada Lovelace", currency |-> "US Dollar",
            parentContact |-> "Alan Turing", managingPartner |-> "Contoso",
            owningTeam |-> "Team One"]
      [] w = "sparse" ->
           [createdBy |-> "Unknown User", currency |-> "Unknown Currency",
            parentContact |-> "Ada", managingPartner |-> "Unknown Account",
            owningTeam |-> "Unknown Team"]
      [] w = "blank" ->
           [createdBy |-> "", currency |-> "Unknown Currency",
            parentContact |-> "Unknown Contact",
            managingPartner |-> "Unknown Account",
            owningTeam |-> "Unknown Team"]
      [] w = "missing" ->
           [createdBy |-> "Unknown", currency |-> "US Dollar",
            parentContact |-> "Unknown", managingPartner |-> "Contoso",
            owningTeam |-> "Team One"]
      [] OTHER ->
           [createdBy |-> "Ada Lovelace", currency |-> "Error loading",
            parentContact |-> "Alan Turing", managingPartner |-> "Contoso",
            owningTeam |-> "Error loading"]

ExpectedSome(w) ==
    [createdBy |-> CASE w = "sparse"  -> "Unknown User"
                     [] w = "blank"   -> ""
                     [] w = "missing" -> "Unknown"
                     [] OTHER         -> "Grace Hopper",
     currency |-> "",
     parentContact |-> "",
     managingPartner |-> IF w \in {"sparse", "blank"} THEN "Unknown Account"
                         ELSE "Contoso",
     owningTeam |-> ""]

\* C18: for a non-null contact the five lookups are all begun in the step
\* that starts the run, and resolvedLookups is set in one step once all
\* five have settled: what the hook shows is always the initial empty
\* record or the complete set of names of one contact, never a part of it.
C18_AllFiveThenOneUpdate ==
    /\ resolvedLookups \in {NoLookups, ExpectedAll(services),
                            ExpectedSome(services)}
    /\ \A r \in 1..Len(runs) :
          /\ Len(runs[r].slots) = 5
          /\ \A i \in 1..5 :
                \/ runs[r].slots[i].called
                \/ (runs[r].slots[i].settled /\ runs[r].slots[i].name = "")
    /\ (contact # JsNull /\ runs = <<>>)
          => resolvedLookups \in {ExpectedAll(services),
                                  ExpectedSome(services)}

\* three of the five lookups have settled, two are pending, and the hook
\* still shows none of the names
C18_Witness ==
    /\ contact = ContactAll
    /\ Len(runs) = 1
    /\ runs[1].slots[1].settled /\ runs[1].slots[1].name = "Ada Lovelace"
    /\ runs[1].slots[2].settled
    /\ runs[1].slots[3].settled
    /\ runs[1].slots[4].called /\ ~runs[1].slots[4].settled
    /\ runs[1].slots[5].called /\ ~runs[1].slots[5].settled
    /\ resolvedLookups = NoLookups
    /\ loading

\* how get() answered the lookup in place i of a run: "data", "nodata" or
\* "reject"
Answer(i, slot) ==
    LET response == ServiceGet(services, LookupServices[i], slot.id)
    IN IF response.kind = "reject" THEN "reject"
       ELSE IF response.data = NoData THEN "nodata"
       ELSE "data"

\* the name expected of the service's record for the lookup in place i
ExpectedName(i, slot) ==
    LET names == IF slot.id = JsString("u2") THEN ExpectedSome(services)
                 ELSE ExpectedAll(services)
    IN CASE i = 1 -> names.createdBy
         [] i = 2 -> names.currency
         [] i = 3 -> names.parentContact
         [] i = 4 -> names.managingPartner
         [] OTHER -> names.owningTeam

\* C19: fetchLookup returns the extracted display name when the service
\* returns a record, and the empty string when the related record is not
\* found: the id is absent, or the service result carries no data.
C19_NameOrEmpty ==
    \A r \in 1..Len(runs) : \A i \in 1..5 :
        LET slot == runs[r].slots[i] IN
        slot.settled =>
            IF ~slot.called THEN slot.name = ""
            ELSE /\ Answer(i, slot) = "data"
                    => slot.name = ExpectedName(i, slot)
                 /\ Answer(i, slot) = "nodata" => slot.name = ""

\* get() resolved without data and fetchLookup returned 'Unknown'
C19_ReturnsUnknown ==
    /\ services = "missing"
    /\ Len(runs) = 1
    /\ runs[1].slots[1].id = JsString("u1")
    /\ runs[1].slots[1].settled
    /\ Answer(1, runs[1].slots[1]) = "nodata"
    /\ runs[1].slots[1].name = "Unknown"

\* what fetchLookup does return: the extracted name for a record, 'Unknown'
\* for a result without data, 'Error loading' for a rejected get(), '' for
\* an absent id
C19_NameUnknownOrError ==
    \A r \in 1..Len(runs) : \A i \in 1..5 :
        LET slot == runs[r].slots[i] IN
        slot.settled =>
            IF ~slot.called THEN slot.name = ""
            ELSE /\ Answer(i, slot) = "data"
                    => slot.name = ExpectedName(i, slot)
                 /\ Answer(i, slot) = "nodata" => slot.name = "Unknown"
                 /\ Answer(i, slot) = "reject" => slot.name = "Error loading"

\* C20: useAccounts fails silently.  When getAll rejects or returns no
\* data nothing is thrown out of loadAccounts and the list of accounts is
\* left as it was; and after every load, failed or not, loading comes back
\* to false.
C20_FailsSilently ==
    /\ [](/\ ~lastLoad.escaped
          /\ lastLoad.response \in {"reject", "nodata"}
                => accounts = lastLoad.before
          /\ (loads = 0 /\ started > 0) => ~accountsLoading)
    /\ (loads > 0 ~> ~accountsLoading)

\* a reload was rejected and the accounts loaded before are still listed
C20_Witness ==
    /\ lastLoad.response = "reject"
    /\ lastLoad.before = <<"Contoso", "Fabrikam">>
    /\ accounts = <<"Contoso", "Fabrikam">>
    /\ ~accountsLoading
    /\ loads = 0

(***************************************************************************)
(* C21  The counter button shows 'count is 0' after page load and 'count   *)
(* is n' after n clicks: the text is "count is " followed by the decimal   *)
(* digits of the number of clicks since the load; a step changes the count *)
(* only by a click, which adds exactly one, or by a page load, which sets  *)
(* it to 0.                                                                *)
(***************************************************************************)
\* the number that a sequence of decimal digits writes
RECURSIVE DecimalValue(_)
DecimalValue(ds) ==
    IF ds = <<>> THEN 0
    ELSE 10 * DecimalValue(SubSeq(ds, 1, Len(ds) - 1))
         + (CHOOSE d \in 0..9 :
              <<"0", "1", "2", "3", "4", "5", "6", "7", "8", "9">>[d + 1]
                = ds[Len(ds)])

\* the button text reads "count is n"
ShowsCount(text, n) ==
    /\ Len(text) >= 2
    /\ text[1] = "count is "
    /\ \A i \in 2..Len(text) :
          text[i] \in {"0", "1", "2", "3", "4", "5", "6", "7", "8", "9"}
    /\ (Len(text) > 2 => text[2] # "0")
    /\ DecimalValue(Tail(text)) = n

C21_CounterShowsClicks ==
    /\ [](page = "open" => ShowsCount(CounterButtonText(count), clicks))
    /\ [][count' # count =>
            \/ clicks' = clicks + 1 /\ count' = count + 1
            \/ clicks' = 0 /\ count' = 0]_vars

C21_Witness ==
    /\ page = "open"
    /\ clicks = 12
    /\ theme = "dark"
    /\ CounterButtonText(count) = <<"count is ", "1", "2">>

\* C22: whenever the contact given to useLookupResolver is null, the five
\* resolvedLookups fields are the empty string, and they stay empty until
\* a non-null contact is given, also when a fetch begun for an earlier
\* contact is still in flight at the time the contact becomes null.
C22_NullContactShowsNothing ==
    contact = JsNull => resolvedLookups = NoLookups

\* no contact is selected, nothing is in flight any more, and the hook
\* shows the names of the contact selected before
C22_StaleNames ==
    /\ contact = JsNull
    /\ runs = <<>>
    /\ services = "found"
    /\ resolvedLookups = ExpectedAll("found")

\* the names expected for a contact in the world the services are in
ExpectedFor(c) ==
    IF c = ContactAll THEN ExpectedAll(services) ELSE ExpectedSome(services)

\* C23: when the contact changes while fetches for an earlier contact are
\* in flight, then once every fetch in flight has settled and every run
\* has ended, resolvedLookups holds the names of the contact given last,
\* never those of an earlier contact whose fetches ended later.
C23_LatestContactWins ==
    (contact # JsNull /\ runs = <<>>)
        => resolvedLookups = ExpectedFor(contact)

\* the second contact is selected, nothing is in flight, and the hook
\* shows the names of the first
C23_EarlierContactShown ==
    /\ contact = ContactSome
    /\ runs = <<>>
    /\ started = 2
    /\ services = "found"
    /\ resolvedLookups = ExpectedAll("found")

\* C24: loading is true whenever at least one fetchLookupNames run is in
\* flight, also when the runs of two successive contacts overlap:
\* loading = false implies that no lookup fetch is pending.
C24_LoadingWhileInFlight ==
    runs # <<>> => loading

\* the run of the second contact has a fetch pending and loading is false,
\* because the run of the first contact has ended
C24_IdleWhilePending ==
    /\ ~loading
    /\ Len(runs) = 1
    /\ runs[1].contact = ContactSome
    /\ \E i \in 1..5 : runs[1].slots[i].called /\ ~runs[1].slots[i].settled
    /\ contact = ContactSome

\* C25: a failure of the service call of one lookup does not keep the
\* others from being resolved.  fetchLookup gives a name for a rejected
\* get() too, 'Error loading'; the lookups whose get() returned a record
\* have that record's name; and the run of a contact with failing lookups
\* still ends with resolvedLookups set for that contact.
C25_FailureStaysLocal ==
    /\ \A r \in 1..Len(runs) : \A i \in 1..5 :
          LET slot == runs[r].slots[i] IN
          (slot.settled /\ slot.called) =>
              /\ Answer(i, slot) = "reject" => slot.name = "Error loading"
              /\ Answer(i, slot) = "data" => slot.name = ExpectedName(i, slot)
    /\ (services = "failing" /\ contact = ContactAll /\ runs = <<>>
        /\ started = 1)
          => resolvedLookups =
               [createdBy |-> "Ada Lovelace", currency |-> "Error loading",
                parentContact |-> "Alan Turing",
                managingPartner |-> "Contoso",
                owningTeam |-> "Error loading"]

\* the currency and the team service have failed, and the contact shows
\* the three other names next to the two 'Error loading'
C25_Witness ==
    /\ services = "failing"
    /\ contact = ContactAll
    /\ runs = <<>>
    /\ ~loading
    /\ resolvedLookups.currency = "Error loading"
    /\ resolvedLookups.owningTeam = "Error loading"
    /\ resolvedLookups.createdBy = "Ada Lovelace"
    /\ resolvedLookups.parentContact = "Alan Turing"
    /\ resolvedLookups.managingPartner = "Contoso"

\* C26: in ContactForm, whenever hasUnsavedChanges is false the form data
\* is the data last loaded from the selected contact (or the blank create
\* form) or the data of the last successful submit, also when a field was
\* edited while an onSubmit call was pending that then resolved true.
\* (What Cancel leaves is set aside here: onCancel belongs to the parent.)
C26_CleanMeansSaved ==
    (~hasUnsavedChanges /\ ~clean.cancelled)
        => formData \in {clean.loaded, clean.submitted}

\* a submit of the loaded data has resolved true after the first name was
\* edited: the flag is off and the edit is neither loaded nor submitted
C26_EditLostFromFlag ==
    /\ clean.by = "true"
    /\ ~clean.cancelled
    /\ ~hasUnsavedChanges
    /\ submits = <<>>
    /\ clean.submitted = clean.loaded
    /\ formData = [clean.loaded EXCEPT !.firstname = "Eve"]

\* the file cannot be loaded: missing, unreadable, malformed or invalid
Unloadable(f) ==
    \/ f.code # "OK"
    \/ f.text \in MalformedTexts \cup InvalidTexts

\* C27: a failed getPowerConfig is never memoized.  A call that fails has
\* read the file and leaves the cache empty; and every call made on an
\* empty cache reads the file and fails or succeeds by what the file is at
\* that time, whatever failed before.
C27_FailureNotMemoized ==
    [][/\ (last'.called /\ last'.threw)
            => (/\ last'.read
                /\ last'.cacheBefore = JsNull
                /\ cachedPowerConfig' = JsNull)
       /\ (cachedPowerConfig = JsNull /\ last'.called)
            => (/\ last'.read
                /\ last'.threw <=> Unloadable(file)
                /\ ~last'.threw => cachedPowerConfig' = last'.value)]_vars

\* no load has succeeded since the server started: the load at startup
\* failed, and the request after it has read the file again and failed too
C27_Witness ==
    /\ plugin = "late"
    /\ httpServer
    /\ last.op = "request"
    /\ last.called
    /\ last.read
    /\ last.threw
    /\ provenance = NoProvenance
    /\ cachedPowerConfig = JsNull
    /\ file = FileWith(TxtNoId)

\* C28: only a 'change' event for the path of the configuration file
\* empties the cache.  When the file is deleted or replaced and no such
\* event is delivered, a step that deletes or replaces it leaves the cache
\* as it is, getPowerConfig keeps returning the record loaded before
\* without reading the file, the endpoint keeps serving that record, and
\* no failure (ConfigMissing included) is reported while the cache holds a
\* record.
C28_OnlyChangeEventClears ==
    /\ [](/\ (last.called /\ last.cacheBefore # JsNull)
               => (/\ ~last.read
                   /\ ~last.threw
                   /\ last.value = last.cacheBefore
                   /\ cachedPowerConfig = last.cacheBefore
                   /\ provenance.read)
          /\ (ServedRequest /\ last.cacheBefore # JsNull)
               => (/\ last.res.ended
                   /\ last.res.body = Serialized(provenance.file.text)))
    /\ [][/\ (cachedPowerConfig # JsNull /\ cachedPowerConfig' = JsNull)
               => (last'.op = "change" /\ last'.path = configPath)
          /\ file' # file => cachedPowerConfig' = cachedPowerConfig]_vars

\* the file was deleted after it was loaded, no change event has come, and
\* a request was served the record of the deleted file
C28_Witness ==
    /\ file = FileAbsent
    /\ provenance.read
    /\ provenance.fresh
    /\ provenance.file = FileWith(TxtValidFull)
    /\ ServedRequest
    /\ ~last.read
    /\ last.res.body = TxtValidFull
    /\ cachedPowerConfig # JsNull

====
